---- MODULE Spec2Model ----
(***************************************************************************)
(* Model of the I2S audio streaming engine: the single-output engine       *)
(* (audio_i2s.c), the multi-output engine (audio_i2s_multi.c and the copy  *)
(* of it inside audio_i2s.c), the DMA channels, the PIO state machines,    *)
(* the shared DMA interrupt line and the buffer pools the engines drive.   *)
(*                                                                         *)
(* Normal-context code runs as a sequence of steps (pc); the completion    *)
(* interrupt handlers run atomically and preempt normal context whenever   *)
(* the interrupt line is enabled and a completion flag is raised.          *)
(***************************************************************************)
EXTENDS Integers, Sequences, FiniteSets, TLC

\* ------------------------------------------------------------ constants
PICO_AUDIO_I2S_MAX_DACS == 4
PICO_AUDIO_I2S_SILENCE_BUFFER_SAMPLE_LENGTH == 256
DefaultBufferCount == 2
DefaultSamplesPerBuffer == 256

\* ------------------------------------------------------------ bounds
MaxConnects == 1      \* single-output connect calls (each allocates a fresh consumer pool)
ArmCap == 3           \* the arms ghost counts arm-or-silence triggers up to ArmCap

NULL == 0             \* null pool / buffer pointer
ZeroWord == -1        \* address of the static zero word
NullConn == "null"    \* null connection pointer

\* Pools: 1 is the single-output producer, 2 and 3 the multi-output
\* producers; consumer pools are allocated from 4 upward by connect.
ProducerPools == {1, 2, 3}
NProducerPools == Cardinality(ProducerPools)
SingleProducer == CHOOSE p \in ProducerPools : \A q \in ProducerPools : p <= q
MultiProducers == ProducerPools \ {SingleProducer}
\* the application keeps one producer per output channel (the last one
\* also serves the out-of-range index)
ProducerOf(i) == IF SingleProducer + 1 + i \in MultiProducers THEN SingleProducer + 1 + i
                 ELSE SingleProducer + 1
\* Hardware resources
DmaIds == 0..2
SmIds == 0..3
Dacs == 0..(PICO_AUDIO_I2S_MAX_DACS - 1)
Pins == 20..28
SingleConfig == [data_pin |-> 28, clock_pin_base |-> 26, dma_channel |-> 0, pio_sm |-> 0]
\* the documented example configuration, cut down to two channels
MultiConfig == [num_dacs |-> 2,
                data_pins |-> [i \in Dacs |-> IF i = 0 THEN 28 ELSE 20 + 2 * (i - 1)],
                clock_pin_base |-> 26,
                dma_channels |-> [i \in Dacs |-> IF i < 2 THEN i ELSE 2],
                clock_pio_sm |-> 0,
                data_pio_sms |-> [i \in Dacs |-> IF i < 2 THEN i + 1 ELSE 3]]
\* the channel counts the application may ask setup for
SetupCounts == {0, 1, MultiConfig.num_dacs, PICO_AUDIO_I2S_MAX_DACS + 1}
SetupConfigs == {[MultiConfig EXCEPT !.num_dacs = n] : n \in SetupCounts}
\* the sample rates a producer's format may carry
SampleRates == {44100, 48000}
\* system clocks a board may run at: the default, the largest below 2^30, 2^30
SystemClocks == {125000000, 1073741823, 1073741824}
\* sample rates that include one too low for a 24-bit divider
DividerRates == {25, 44100, 48000}

\* the application connects the single output up to MaxConnects times and
\* every multi-output channel once
MaxPools == NProducerPools + MaxConnects + MultiConfig.num_dacs
PoolIds == 1..MaxPools
\* an application that drives the single output alone and reconnects it
\* allocates pools up to this id
MaxSinglePools == NProducerPools + (IF MaxConnects > MultiConfig.num_dacs THEN MaxConnects
                                    ELSE MultiConfig.num_dacs)
\* Buffers: producer pool p owns buffer p at Init; every connect allocates
\* up to DefaultBufferCount fresh consumer buffers.
MaxBufs == NProducerPools + (MaxPools - NProducerPools) * DefaultBufferCount
BufIds == 1..MaxBufs
\* capacities (in samples) the application may have given its producer
\* buffers (the multi-output application uses the consumer buffer size); it
\* fills a buffer before giving it
ProducerCapacities(e) ==
    IF e = "single" THEN {DefaultSamplesPerBuffer * k : k \in 1..4}
    ELSE {DefaultSamplesPerBuffer}

\* the static connection objects of the engine, and one of the application
ConnIds == {"thru", "ct", "pg", "s8", "custom"}

VARIABLES
    halted,                  \* "no", or why execution stopped (assert, panic, fault)
    ndebug,                  \* build flag NDEBUG: assert() compiled out
    variant,                 \* multi connect completes the connection (audio_i2s.c) or leaves it null (audio_i2s_multi.c)
    engine,                  \* the engine the application drives: "single" or "multi"
    irqEnabled,              \* NVIC enable of DMA_IRQ_0 + PICO_AUDIO_I2S_DMA_IRQ
    irqHandlers,             \* handlers installed on the shared line
    dma,                     \* DMA channels
    sm,                      \* PIO state machines
    shared_state,            \* single-output state
    audio_i2s_consumer,      \* single-output consumer pool pointer
    audio_enabled,           \* single-output enable flag
    multi_dac_state,         \* multi-output state
    multi_dac_audio_enabled, \* multi-output enable flag
    pool,                    \* buffer pools
    buf,                     \* audio buffers: sample_count, max_sample_count, home pool
    conn,                    \* the static connection objects
    npools, nbufs,           \* allocation high-water marks
    appHeld,                 \* producer buffers the application has taken and not yet given
    pc,                      \* normal-context position
    ubSeen,                  \* ghost: undefined behaviour has been executed (and came back)
    arms,                    \* ghost: number of arm-or-silence DMA triggers so far (saturating at ArmCap)
    mono,                    \* build flags PICO_AUDIO_I2S_MONO_INPUT and PICO_AUDIO_I2S_MONO_OUTPUT
    clk_sys,                 \* system clock frequency in Hz
    applied,                 \* ghost: the sample rate of the last clock divider written (0: none yet)
    gpio                     \* per pin, how many signals setup has routed to it (saturating at 2)

vars == <<halted, ndebug, variant, engine, mono, clk_sys, irqEnabled, irqHandlers, dma, sm, gpio, shared_state,
          audio_i2s_consumer, audio_enabled, multi_dac_state, multi_dac_audio_enabled,
          pool, buf, conn, npools, nbufs, appHeld, pc, ubSeen, arms, applied>>

\* ------------------------------------------------------------ machine record
\* Sequential code is translated as operators from machine record to
\* machine record; an action commits the record its code produces.
M == [halted |-> halted, irqEnabled |-> irqEnabled, irqHandlers |-> irqHandlers,
      dma |-> dma, sm |-> sm, gpio |-> gpio, shared_state |-> shared_state,
      audio_i2s_consumer |-> audio_i2s_consumer, audio_enabled |-> audio_enabled,
      multi_dac_state |-> multi_dac_state,
      multi_dac_audio_enabled |-> multi_dac_audio_enabled,
      pool |-> pool, buf |-> buf, conn |-> conn, npools |-> npools, nbufs |-> nbufs,
      ubSeen |-> ubSeen, arms |-> arms, applied |-> applied,
      wrote |-> FALSE]   \* ghost: the code run so far has written a clock divider

Commit(m) ==
    /\ halted' = m.halted
    /\ irqEnabled' = m.irqEnabled
    /\ irqHandlers' = m.irqHandlers
    /\ dma' = m.dma
    /\ sm' = m.sm
    /\ gpio' = m.gpio
    /\ shared_state' = m.shared_state
    /\ audio_i2s_consumer' = m.audio_i2s_consumer
    /\ audio_enabled' = m.audio_enabled
    /\ multi_dac_state' = m.multi_dac_state
    /\ multi_dac_audio_enabled' = m.multi_dac_audio_enabled
    /\ pool' = m.pool
    /\ buf' = m.buf
    /\ conn' = m.conn
    /\ npools' = m.npools
    /\ nbufs' = m.nbufs
    /\ ubSeen' = m.ubSeen
    /\ arms' = m.arms
    /\ applied' = m.applied

Halt(m, why) == IF m.halted = "no" THEN [m EXCEPT !.halted = why] ELSE m
Ok(m) == m.halted = "no"

\* assert(cond): compiled out under NDEBUG
AssertC(m, cond, why) == IF ndebug \/ cond THEN m ELSE Halt(m, why)

Min(a, b) == IF a < b THEN a ELSE b

\* ------------------------------------------------------------ buffer pool library
\* (pico/audio.h; the engine only calls it)
get_free_audio_buffer(m, p) ==
    IF m.pool[p].free = <<>> THEN [m |-> m, ret |-> NULL]
    ELSE [m |-> [m EXCEPT !.pool[p].free = Tail(@)], ret |-> Head(m.pool[p].free)]

get_full_audio_buffer(m, p) ==
    IF m.pool[p].full = <<>> THEN [m |-> m, ret |-> NULL]
    ELSE [m |-> [m EXCEPT !.pool[p].full = Tail(@)], ret |-> Head(m.pool[p].full)]

\* A free buffer's sample_count is dead: the producer (before its give) or
\* the copying take (buffer->sample_count = pos) rewrites it before anything
\* reads it, so the model keeps 0 there.
queue_free_audio_buffer(m, p, b) ==
    [m EXCEPT !.pool[p].free = <<b>> \o @, !.buf[b].sample_count = 0]

queue_full_audio_buffer(m, p, b) == [m EXCEPT !.pool[p].full = Append(@, b)]

\* audio_new_consumer_pool: a fresh pool with buffer_count free buffers, in
\* the consumer format the connect routines pass (16-bit, one channel in a
\* mono-output build, two otherwise)
audio_new_consumer_pool(m, buffer_count, samples_per_buffer) ==
    LET p == m.npools + 1
        ids == [i \in 1..buffer_count |-> m.nbufs + i]
        m1 == [m EXCEPT
                 !.npools = p,
                 !.nbufs = @ + buffer_count,
                 !.pool[p] = [type |-> "consumer", conn |-> NullConn,
                              free |-> ids, full |-> <<>>, freq |-> 0,
                              format |-> "S16",
                              channel_count |-> IF mono.output THEN 1 ELSE 2],
                 !.buf = [b \in BufIds |->
                            IF b \in {ids[i] : i \in 1..buffer_count}
                            THEN [sample_count |-> 0,
                                  max_sample_count |-> samples_per_buffer,
                                  home |-> p]
                            ELSE @[b]]]
    IN [m |-> m1, ret |-> p]

audio_complete_connection(m, c, producer, consumer) ==
    [m EXCEPT !.conn[c].producer_pool = producer,
              !.conn[c].consumer_pool = consumer,
              !.pool[producer].conn = c,
              !.pool[consumer].conn = c]

\* ------------------------------------------------------------ frequency controller
DefaultSystemClock == 125000000
clock_get_hz == clk_sys

\* a variant whose product wraps at 2^30
U32Times4Div_wraps_early(x, f) ==
    LET xl == x % 268435456
    IN (xl \div f) * 4 + ((xl % f) * 4) \div f

\* (uint32_t)(x * 4) / f, computed without leaving 31 bits: the product
\* wraps at 2^32, so only x mod 2^30 counts
U32Times4Div(x, f) ==
    LET xl == x % 1073741824
    IN (xl \div f) * 4 + ((xl % f) * 4) \div f

update_pio_frequency(m, sample_freq) ==
    LET system_clock_frequency == clock_get_hz
        m1 == AssertC(m, system_clock_frequency < 1073741824, "assert")
        divider == IF sample_freq = 0 THEN 0
                   ELSE U32Times4Div(system_clock_frequency, sample_freq)
        m2 == AssertC(m1, divider < 16777216, "assert")
    IN IF ~Ok(m2) THEN m2
       ELSE [m2 EXCEPT !.sm[m.shared_state.pio_sm].clkdiv = <<divider \div 256, divider % 256>>,
                       !.shared_state.freq = sample_freq,
                       !.wrote = TRUE,
                       !.applied = sample_freq]

\* ------------------------------------------------------------ connection hooks
\* copying consumer take (stereo_to_stereo_consumer_take and its siblings):
\* fill one free consumer buffer from the producer's ready queue
RECURSIVE copy_loop(_, _, _, _)
copy_loop(m, c, buffer, pos) ==
    IF pos >= m.buf[buffer].max_sample_count
    THEN [m |-> [m EXCEPT !.buf[buffer].sample_count = pos], ret |-> buffer]
    ELSE
      LET need == m.conn[c].cur = NULL
          g == get_full_audio_buffer(m, m.conn[c].producer_pool)
      IN IF need /\ g.ret = NULL
         THEN IF pos = 0
              THEN [m |-> queue_free_audio_buffer(m, m.conn[c].consumer_pool, buffer),
                    ret |-> NULL]
              ELSE [m |-> [m EXCEPT !.buf[buffer].sample_count = pos], ret |-> buffer]
         ELSE
           LET m1 == IF need
                     THEN [g.m EXCEPT !.conn[c].cur = g.ret, !.conn[c].pos = 0]
                     ELSE m
               cur == m1.conn[c].cur
               n == Min(m1.buf[buffer].max_sample_count - pos,
                        m1.buf[cur].sample_count - m1.conn[c].pos)
               m2 == [m1 EXCEPT !.conn[c].pos = @ + n]
               m3 == IF m2.conn[c].pos = m2.buf[cur].sample_count
                     THEN [queue_free_audio_buffer(m2, m2.conn[c].producer_pool, cur)
                             EXCEPT !.conn[c].cur = NULL]
                     ELSE m2
           IN copy_loop(m3, c, buffer, pos + n)

copying_consumer_take(m, c) ==
    LET f == get_free_audio_buffer(m, m.conn[c].consumer_pool)
    IN IF f.ret = NULL THEN [m |-> m, ret |-> NULL]
       ELSE copy_loop(f.m, c, f.ret, 0)

\* the frequency test the two wrapped hooks start with
dynamic_frequency_shift(m, c) ==
    LET pf == m.pool[m.conn[c].producer_pool].freq
    IN IF pf # m.shared_state.freq THEN update_pio_frequency(m, pf) ELSE m

\* wrap_consumer_take: dynamic frequency shift, then the copying take
wrap_consumer_take(m, c) ==
    LET m1 == dynamic_frequency_shift(m, c)
    IN IF ~Ok(m1) THEN [m |-> m1, ret |-> NULL]
       ELSE copying_consumer_take(m1, c)

\* stereo_to_stereo_producer_give once a free consumer buffer is there: the
\* producer's samples are copied into it, it is queued full, the producer's
\* buffer goes back to the producer's free list
producer_pool_blocking_give(m, c, b) ==
    LET f == get_free_audio_buffer(m, m.conn[c].consumer_pool)
        m1 == [f.m EXCEPT !.buf[f.ret].sample_count =
                              Min(m.buf[b].sample_count, m.buf[f.ret].max_sample_count)]
        m2 == queue_full_audio_buffer(m1, m.conn[c].consumer_pool, f.ret)
    IN queue_free_audio_buffer(m2, m.conn[c].producer_pool, b)

\* wrap_producer_give: dynamic frequency shift, then assert(false) in a
\* mono-input build, the blocking copying give otherwise; blocked tells
\* that the give waits for a free consumer buffer
wrap_producer_give(m, c, b) ==
    LET m1 == dynamic_frequency_shift(m, c)
    IN IF ~Ok(m1) THEN [m |-> m1, blocked |-> FALSE]
       ELSE IF mono.input THEN [m |-> AssertC(m1, FALSE, "assert"), blocked |-> FALSE]
       ELSE IF m1.pool[m1.conn[c].consumer_pool].free = <<>>
       THEN [m |-> m1, blocked |-> TRUE]
       ELSE [m |-> producer_pool_blocking_give(m1, c, b), blocked |-> FALSE]

consumer_pool_take_buffer_default(m, c) ==
    get_full_audio_buffer(m, m.conn[c].consumer_pool)

consumer_pool_give_buffer_default(m, c, b) ==
    queue_free_audio_buffer(m, m.conn[c].consumer_pool, b)

producer_pool_take_buffer_default(m, c) ==
    get_free_audio_buffer(m, m.conn[c].producer_pool)

producer_pool_give_buffer_default(m, c, b) ==
    queue_full_audio_buffer(m, m.conn[c].producer_pool, b)

pass_thru_producer_give(m, c, b) ==
    queue_full_audio_buffer(m, m.conn[c].consumer_pool, b)

\* a variant that keeps the buffer in the consumer pool
pass_thru_consumer_give_to_consumer(m, c, b) ==
    queue_free_audio_buffer(m, m.conn[c].consumer_pool, b)

pass_thru_consumer_give(m, c, b) ==
    queue_free_audio_buffer(m, m.conn[c].producer_pool, b)

\* the conversion a connection's copying hook performs; the wrapped hooks
\* choose it by the build flags, whatever the producer's channel count
wrap_consumer_take_conversion ==
    IF mono.input THEN (IF mono.output THEN "mono_to_mono" ELSE "mono_to_stereo")
    ELSE "stereo_to_stereo"

wrap_producer_give_conversion ==
    IF mono.input THEN "assert(false)" ELSE "stereo_to_stereo"

connection_conversion(c) ==
    CASE c = "ct" -> wrap_consumer_take_conversion
      [] c = "pg" -> wrap_producer_give_conversion
      [] c = "s8" -> (IF mono.output THEN "mono_s8_to_mono" ELSE "mono_s8_to_stereo")
      [] OTHER -> "none"

\* The four hooks of each static connection object
consumer_pool_take(m, c) ==
    CASE c = "ct" -> wrap_consumer_take(m, c)
      [] c = "s8" -> copying_consumer_take(m, c)
      [] OTHER -> consumer_pool_take_buffer_default(m, c)

consumer_pool_give(m, c, b) ==
    IF c = "thru" THEN pass_thru_consumer_give(m, c, b)
    ELSE consumer_pool_give_buffer_default(m, c, b)

\* take_audio_buffer(pool, false) on a consumer pool.  A null pool or a
\* pool whose connection is null is dereferenced: undefined behaviour, whose
\* outcome ub is a fault or a call that comes back with no buffer.
take_audio_buffer(m, p, ub) ==
    IF p = NULL \/ m.pool[p].conn = NullConn
    THEN [m |-> IF ub = "fault" THEN Halt(m, "fault") ELSE [m EXCEPT !.ubSeen = TRUE],
          ret |-> NULL]
    ELSE consumer_pool_take(m, m.pool[p].conn)

give_audio_buffer(m, p, b, ub) ==
    IF p = NULL \/ m.pool[p].conn = NullConn
    THEN (IF ub = "fault" THEN Halt(m, "fault") ELSE [m EXCEPT !.ubSeen = TRUE])
    ELSE consumer_pool_give(m, m.pool[p].conn, b)

UBOutcomes == {"fault", "null"}

\* ------------------------------------------------------------ hardware
dma_irqn_get_channel_status(m, ch) == m.dma[ch].inte /\ m.dma[ch].intr

dma_irqn_acknowledge_channel(m, ch) == [m EXCEPT !.dma[ch].intr = FALSE]

\* dma_channel_set_config(read_increment) + dma_channel_transfer_from_buffer_now;
\* the arms ghost counts the trigger
dma_channel_transfer_from_buffer_now(m, ch, incr, src, count) ==
    [m EXCEPT !.dma[ch].busy = TRUE,
              !.dma[ch].incr = incr,
              !.dma[ch].src = src,
              !.dma[ch].count = count,
              !.arms = Min(@ + 1, ArmCap)]

\* the line DMA_IRQ_0 + PICO_AUDIO_I2S_DMA_IRQ is asserted and enabled
IrqPending ==
    /\ irqEnabled
    /\ \E ch \in DmaIds : dma[ch].inte /\ dma[ch].intr

\* ------------------------------------------------------------ single-output engine
\* a variant that leaves the channel's read increment as it was on underrun
audio_start_dma_transfer_arm_keep_increment(m, ab) ==
    LET m1 == [m EXCEPT !.shared_state.playing_buffer = ab]
        ch == m.shared_state.dma_channel
    IN dma_channel_transfer_from_buffer_now(m1, ch, m.dma[ch].incr,
           IF ab = NULL THEN ZeroWord ELSE ab,
           IF ab = NULL THEN PICO_AUDIO_I2S_SILENCE_BUFFER_SAMPLE_LENGTH
           ELSE m1.buf[ab].sample_count)

\* second half of audio_start_dma_transfer: ab is what the take returned
audio_start_dma_transfer_arm(m, ab) ==
    LET m1 == [m EXCEPT !.shared_state.playing_buffer = ab]
        ch == m.shared_state.dma_channel
    IN IF ab = NULL
       THEN dma_channel_transfer_from_buffer_now(m1, ch, FALSE, ZeroWord,
                PICO_AUDIO_I2S_SILENCE_BUFFER_SAMPLE_LENGTH)
       ELSE
         LET m2 == AssertC(m1, m1.buf[ab].sample_count # 0, "assert")
             home == m1.pool[m1.buf[ab].home]
             m3 == AssertC(m2, /\ home.format = "S16"
                               /\ home.channel_count = (IF mono.output THEN 1 ELSE 2),
                           "assert")
         IN IF ~Ok(m3) THEN m3
            ELSE dma_channel_transfer_from_buffer_now(m3, ch, TRUE, ab,
                     m3.buf[ab].sample_count)

\* first half: the entry assertion and the non-blocking take
audio_start_dma_transfer_take(m, ub) ==
    LET m1 == AssertC(m, m.shared_state.playing_buffer = NULL, "assert")
    IN IF ~Ok(m1) THEN [m |-> m1, ret |-> NULL]
       ELSE take_audio_buffer(m1, m1.audio_i2s_consumer, ub)

audio_start_dma_transfer(m, ub) ==
    LET t == audio_start_dma_transfer_take(m, ub)
    IN IF ~Ok(t.m) THEN t.m ELSE audio_start_dma_transfer_arm(t.m, t.ret)

\* the handler up to its call of audio_start_dma_transfer: acknowledge,
\* free the buffer just finished
audio_i2s_dma_irq_handler_release(m, ub) ==
    LET m1 == dma_irqn_acknowledge_channel(m, m.shared_state.dma_channel)
        pb == m1.shared_state.playing_buffer
    IN IF pb # NULL
       THEN LET g == give_audio_buffer(m1, m1.audio_i2s_consumer, pb, ub)
            IN IF ndebug THEN g
               ELSE [g EXCEPT !.shared_state.playing_buffer = NULL]
       ELSE m1

audio_i2s_dma_irq_handler(m, ub) ==
    IF ~dma_irqn_get_channel_status(m, m.shared_state.dma_channel) THEN m
    ELSE LET m2 == audio_i2s_dma_irq_handler_release(m, ub)
         IN IF ~Ok(m2) THEN m2 ELSE audio_start_dma_transfer(m2, ub)

\* gpio_set_function(pin, GPIO_FUNC_PIOx): the pin now carries one more signal
gpio_set_function(m, pin) ==
    [m EXCEPT !.gpio[pin] = IF @ < 2 THEN @ + 1 ELSE 2]

audio_i2s_setup(m, config) ==
    LET s == config.pio_sm
        d == config.dma_channel
        m0 == gpio_set_function(gpio_set_function(gpio_set_function(m,
                  config.data_pin), config.clock_pin_base), config.clock_pin_base + 1)
        m1 == [m0 EXCEPT !.shared_state.pio_sm = s]
    IN IF m1.sm[s].claimed THEN Halt(m1, "panic")
       ELSE IF m1.dma[d].claimed THEN Halt([m1 EXCEPT !.sm[s].claimed = TRUE], "panic")
       ELSE [m1 EXCEPT !.sm[s].claimed = TRUE,
                       !.dma[d] = [claimed |-> TRUE, inte |-> TRUE, intr |-> @.intr,
                                   busy |-> @.busy, src |-> NULL, incr |-> TRUE,
                                   count |-> 0, dreq |-> s],
                       !.shared_state.dma_channel = d,
                       !.irqHandlers = @ \cup {"single"}]

\* audio_i2s_connect_extra up to the choice of the connection
audio_i2s_connect_extra_begin(m, producer, buffer_count, samples_per_buffer) ==
    LET m1 == AssertC(m, m.pool[producer].format = "S16", "assert")
    IN IF ~Ok(m1) THEN m1
       ELSE LET n == audio_new_consumer_pool(m1, buffer_count, samples_per_buffer)
                m2 == [n.m EXCEPT !.audio_i2s_consumer = n.ret,
                                  !.pool[n.ret].freq = m.pool[producer].freq]
            IN update_pio_frequency(m2, m.pool[producer].freq)

\* a variant that selects the copying connections the other way round
ConnectionByPolicy_give_swapped(buffer_on_give, buffer_count) ==
    IF buffer_count = 0 THEN "thru"
    ELSE IF buffer_on_give THEN "ct" ELSE "pg"

\* the connection chosen when the connection argument is NULL
ConnectionByPolicy(buffer_on_give, buffer_count) ==
    IF buffer_count = 0 THEN "thru"
    ELSE IF buffer_on_give THEN "pg" ELSE "ct"

\* audio_i2s_connect_extra from if (!connection) to the connection it will
\* complete: the channel checks and the policy only for a null argument
audio_i2s_connect_extra_choose(m, producer, buffer_on_give, buffer_count, connection) ==
    IF connection # NullConn THEN [m |-> m, c |-> connection]
    ELSE [m |-> IF m.pool[producer].channel_count = 2 /\ (mono.input \/ mono.output)
                THEN Halt(m, "panic") ELSE m,
          c |-> ConnectionByPolicy(buffer_on_give, buffer_count)]

\* audio_i2s_connect_s8: the format assertion, the consumer pool, the
\* divider computed and written in place (no assertion, shared_state.freq
\* not recorded), the mono-output panic
audio_i2s_connect_s8_begin(m, producer) ==
    LET m1 == AssertC(m, m.pool[producer].format = "S8", "assert")
    IN IF ~Ok(m1) THEN m1
       ELSE LET n == audio_new_consumer_pool(m1, 2, 256)
                sample_freq == m.pool[producer].freq
                divider == U32Times4Div(clock_get_hz, sample_freq)
                m2 == [n.m EXCEPT !.audio_i2s_consumer = n.ret,
                                  !.pool[n.ret].freq = sample_freq,
                                  !.sm[m.shared_state.pio_sm].clkdiv =
                                      <<divider \div 256, divider % 256>>,
                                  !.wrote = TRUE,
                                  !.applied = sample_freq]
            IN IF m.pool[producer].channel_count = 2 /\ mono.output
               THEN Halt(m2, "panic") ELSE m2

\* normal-context position: the step, and the locals alive across steps
\* (en, ab, connection c, producer p, index or count i, the value ret a call
\* returns to the application, w: the call has written a clock divider, the
\* entry point e called with buffer_on_give g and connection argument a)
Idle == [step |-> "idle", en |-> FALSE, ab |-> NULL, c |-> NullConn, p |-> NULL, i |-> 0,
         ret |-> "none", w |-> FALSE, e |-> "none", g |-> FALSE, a |-> NullConn]

Running == halted = "no" /\ ~IrqPending
\* audio_i2s_setup has run (it installs the handler)
SingleSetUp == "single" \in irqHandlers
AtIdle == Running /\ pc.step = "idle"

Setup ==
    /\ AtIdle
    /\ Commit(audio_i2s_setup(M, SingleConfig))
    /\ UNCHANGED <<ndebug, variant, engine, mono, clk_sys, appHeld, pc>>

ConnectExtra(buffer_on_give, buffer_count, samples_per_buffer) ==
    /\ AtIdle
    /\ npools < NProducerPools + MaxConnects
    /\ buffer_on_give = FALSE
    /\ Commit(audio_i2s_connect_extra_begin(M, SingleProducer, buffer_count,
                                            samples_per_buffer))
    /\ pc' = [Idle EXCEPT !.step = "connect_complete",
                          !.c = ConnectionByPolicy(buffer_on_give, buffer_count),
                          !.p = SingleProducer]
    /\ UNCHANGED <<ndebug, variant, engine, mono, clk_sys, appHeld>>

\* audio_i2s_connect = audio_i2s_connect_thru(producer, NULL)
Connect == ConnectExtra(FALSE, DefaultBufferCount, DefaultSamplesPerBuffer)

ConnectComplete ==
    /\ Running
    /\ pc.step = "connect_complete"
    /\ Commit(audio_complete_connection(M, pc.c, pc.p, audio_i2s_consumer))
    /\ pc' = Idle
    /\ UNCHANGED <<ndebug, variant, engine, mono, clk_sys, appHeld>>

\* audio_i2s_connect_extra(producer, buffer_on_give, buffer_count,
\* samples_per_buffer, connection), called directly or through the entry
\* point named
ConnectExtraWith(entry, buffer_on_give, buffer_count, samples_per_buffer, connection) ==
    /\ AtIdle
    /\ npools < MaxSinglePools
    /\ LET b == audio_i2s_connect_extra_begin(M, SingleProducer, buffer_count,
                                              samples_per_buffer)
           ch == IF Ok(b)
                 THEN audio_i2s_connect_extra_choose(b, SingleProducer, buffer_on_give,
                                                     buffer_count, connection)
                 ELSE [m |-> b, c |-> NullConn]
       IN /\ Commit(ch.m)
          /\ pc' = IF Ok(ch.m)
                   THEN [Idle EXCEPT !.step = "connect_complete", !.c = ch.c,
                                     !.p = SingleProducer, !.i = buffer_count,
                                     !.w = ch.m.wrote, !.e = entry,
                                     !.g = buffer_on_give, !.a = connection]
                   ELSE pc
    /\ UNCHANGED <<ndebug, variant, engine, mono, clk_sys, appHeld>>

\* audio_i2s_connect_thru(producer, connection) =
\* audio_i2s_connect_extra(producer, false, 2, 256, connection)
ConnectThru(entry, connection) == ConnectExtraWith(entry, FALSE, 2, 256, connection)

\* audio_i2s_connect(producer) = audio_i2s_connect_thru(producer, NULL)
ConnectDefault == ConnectThru("connect", NullConn)

ConnectS8 ==
    /\ AtIdle
    /\ npools < MaxSinglePools
    /\ LET b == audio_i2s_connect_s8_begin(M, SingleProducer)
       IN /\ Commit(b)
          /\ pc' = IF Ok(b)
                   THEN [Idle EXCEPT !.step = "connect_complete", !.c = "s8",
                                     !.p = SingleProducer, !.i = 2, !.w = b.wrote,
                                     !.e = "connect_s8"]
                   ELSE pc
    /\ UNCHANGED <<ndebug, variant, engine, mono, clk_sys, appHeld>>

\* audio_i2s_set_enabled(enabled): the call; the application sets the engine
\* up before it switches it
SetEnabledCall(enabled) ==
    /\ AtIdle
    /\ SingleSetUp
    /\ pc' = [Idle EXCEPT !.step = "se_entry", !.en = enabled]
    /\ UNCHANGED <<halted, ndebug, variant, engine, mono, clk_sys, irqEnabled, irqHandlers, dma, sm, gpio, shared_state,
                   audio_i2s_consumer, audio_enabled, multi_dac_state,
                   multi_dac_audio_enabled, pool, buf, conn, npools, nbufs, appHeld,
                   ubSeen, arms, applied>>

\* a variant that switches the state machine together with the interrupt
audio_i2s_set_enabled_entry_unit_first(m, enabled) ==
    IF enabled # m.audio_enabled
    THEN [m |-> [m EXCEPT !.irqEnabled = enabled,
                          !.sm[m.shared_state.pio_sm].enabled = enabled],
          next |-> IF enabled THEN "se_take" ELSE "se_give"]
    ELSE [m |-> m, next |-> "idle"]

\* a variant without the enabled != audio_enabled test
audio_i2s_set_enabled_entry_unguarded(m, enabled) ==
    [m |-> [m EXCEPT !.irqEnabled = enabled],
     next |-> IF enabled THEN "se_take" ELSE "se_give"]

\* if (enabled != audio_enabled) irq_set_enabled(..., enabled); next is where
\* the call goes on: its enable branch, its disable branch, or its return
audio_i2s_set_enabled_entry(m, enabled) ==
    IF enabled # m.audio_enabled
    THEN [m |-> [m EXCEPT !.irqEnabled = enabled],
          next |-> IF enabled THEN "se_take" ELSE "se_give"]
    ELSE [m |-> m, next |-> "idle"]

SetEnabledEntry ==
    /\ Running
    /\ pc.step = "se_entry"
    /\ LET e == audio_i2s_set_enabled_entry(M, pc.en)
       IN /\ Commit(e.m)
          /\ pc' = IF e.next = "idle" THEN Idle ELSE [pc EXCEPT !.step = e.next]
    /\ UNCHANGED <<ndebug, variant, engine, mono, clk_sys, appHeld>>

SetEnabledTake ==
    /\ Running
    /\ pc.step = "se_take"
    /\ \E ub \in UBOutcomes :
         LET t == audio_start_dma_transfer_take(M, ub)
         IN /\ Commit(t.m)
            /\ pc' = [pc EXCEPT !.step = "se_arm", !.ab = t.ret]
    /\ UNCHANGED <<ndebug, variant, engine, mono, clk_sys, appHeld>>

SetEnabledArm ==
    /\ Running
    /\ pc.step = "se_arm"
    /\ Commit(audio_start_dma_transfer_arm(M, pc.ab))
    /\ pc' = [pc EXCEPT !.step = "se_sm", !.ab = NULL]
    /\ UNCHANGED <<ndebug, variant, engine, mono, clk_sys, appHeld>>

\* the disable branch: free the buffer in flight
audio_i2s_set_enabled_release(m, ub) ==
    IF m.shared_state.playing_buffer # NULL
    THEN [give_audio_buffer(m, m.audio_i2s_consumer, m.shared_state.playing_buffer, ub)
            EXCEPT !.shared_state.playing_buffer = NULL]
    ELSE m

SetEnabledGive ==
    /\ Running
    /\ pc.step = "se_give"
    /\ \E ub \in UBOutcomes : Commit(audio_i2s_set_enabled_release(M, ub))
    /\ pc' = [pc EXCEPT !.step = "se_sm"]
    /\ UNCHANGED <<ndebug, variant, engine, mono, clk_sys, appHeld>>

\* pio_sm_set_enabled(audio_pio, shared_state.pio_sm, enabled); audio_enabled = enabled
audio_i2s_set_enabled_finish(m, enabled) ==
    [m EXCEPT !.sm[m.shared_state.pio_sm].enabled = enabled,
              !.audio_enabled = enabled]

SetEnabledFinish ==
    /\ Running
    /\ pc.step = "se_sm"
    /\ Commit(audio_i2s_set_enabled_finish(M, pc.en))
    /\ pc' = Idle
    /\ UNCHANGED <<ndebug, variant, engine, mono, clk_sys, appHeld>>

\* the completion interrupt preempts normal context
IrqSingle ==
    /\ halted = "no"
    /\ irqEnabled
    /\ "single" \in irqHandlers
    /\ dma_irqn_get_channel_status(M, shared_state.dma_channel)
    /\ \E ub \in UBOutcomes : Commit(audio_i2s_dma_irq_handler(M, ub))
    /\ UNCHANGED <<ndebug, variant, engine, mono, clk_sys, appHeld, pc>>

\* a triggered DMA transfer is paced by the DREQ of its state machine's TX
\* FIFO: it reaches its end, and raises its completion flag, only while
\* that state machine runs and drains the FIFO
DmaComplete(ch) ==
    /\ halted = "no"
    /\ dma[ch].busy
    /\ sm[dma[ch].dreq].enabled
    /\ dma' = [dma EXCEPT ![ch].busy = FALSE, ![ch].intr = TRUE]
    /\ UNCHANGED <<halted, ndebug, variant, engine, mono, clk_sys, irqEnabled, irqHandlers, sm, gpio, shared_state,
                   audio_i2s_consumer, audio_enabled, multi_dac_state,
                   multi_dac_audio_enabled, pool, buf, conn, npools, nbufs, appHeld,
                   pc, ubSeen, arms, applied>>

\* ------------------------------------------------------------ the application's producer side
producer_take(m, p) == producer_pool_take_buffer_default(m, m.pool[p].conn)

producer_give(m, p, b) ==
    IF m.pool[p].conn = "thru" THEN pass_thru_producer_give(m, "thru", b)
    ELSE producer_pool_give_buffer_default(m, m.pool[p].conn, b)

ProducerTake(p) ==
    /\ AtIdle
    /\ pool[p].conn # NullConn
    /\ LET t == producer_take(M, p)
       IN /\ t.ret # NULL
          /\ Commit(t.m)
          /\ appHeld' = appHeld \cup {t.ret}
    /\ UNCHANGED <<ndebug, variant, engine, mono, clk_sys, pc>>

ProducerGive(b) ==
    /\ AtIdle
    /\ b \in appHeld
    /\ pool[buf[b].home].conn # NullConn
    /\ Commit(producer_give([M EXCEPT !.buf[b].sample_count = buf[b].max_sample_count],
                             buf[b].home, b))
    /\ appHeld' = appHeld \ {b}
    /\ UNCHANGED <<ndebug, variant, engine, mono, clk_sys, pc>>

\* give_audio_buffer on the producer pool, through whichever producer give
\* hook the connection carries; a copying give that finds no free consumer
\* buffer waits inside the call
ProducerGiveHook(b) ==
    /\ AtIdle
    /\ b \in appHeld
    /\ pool[buf[b].home].conn # NullConn
    /\ LET c == pool[buf[b].home].conn
           m0 == [M EXCEPT !.buf[b].sample_count = buf[b].max_sample_count]
       IN IF c = "pg"
          THEN LET g == wrap_producer_give(m0, c, b)
               IN /\ Commit(g.m)
                  /\ appHeld' = IF g.blocked \/ ~Ok(g.m) THEN appHeld ELSE appHeld \ {b}
                  /\ pc' = IF g.blocked THEN [Idle EXCEPT !.step = "give_blocked", !.ab = b]
                           ELSE pc
          ELSE /\ Commit(producer_give(m0, buf[b].home, b))
               /\ appHeld' = appHeld \ {b}
               /\ pc' = pc
    /\ UNCHANGED <<ndebug, variant, engine, mono, clk_sys>>

\* the waiting give goes on once the handler has freed a consumer buffer
ProducerGiveResume ==
    /\ Running
    /\ pc.step = "give_blocked"
    /\ pool[conn["pg"].consumer_pool].free # <<>>
    /\ Commit(producer_pool_blocking_give(M, "pg", pc.ab))
    /\ appHeld' = appHeld \ {pc.ab}
    /\ pc' = Idle
    /\ UNCHANGED <<ndebug, variant, engine, mono, clk_sys>>

\* dynamic frequency shifting: the application changes the sample rate its
\* producer pool's format carries
ProducerSetRate(p, r) ==
    /\ AtIdle
    /\ pool[p].freq # r
    /\ pool' = [pool EXCEPT ![p].freq = r]
    /\ UNCHANGED <<halted, ndebug, variant, engine, mono, clk_sys, irqEnabled, irqHandlers, dma, sm, gpio, shared_state,
                   audio_i2s_consumer, audio_enabled, multi_dac_state,
                   multi_dac_audio_enabled, buf, conn, npools, nbufs, appHeld,
                   pc, ubSeen, arms, applied>>

\* ------------------------------------------------------------ multi-output engine
RECURSIVE claim_data_sms(_, _, _)
claim_data_sms(m, config, i) ==
    IF i >= config.num_dacs \/ ~Ok(m) THEN m
    ELSE LET s == config.data_pio_sms[i]
         IN IF m.sm[s].claimed THEN Halt(m, "panic")
            ELSE claim_data_sms([m EXCEPT !.sm[s].claimed = TRUE,
                                          !.multi_dac_state.data_pio_sms[i] = s],
                                config, i + 1)

\* the clock pins, then the data pin of each channel
RECURSIVE set_data_pins(_, _, _)
set_data_pins(m, config, i) ==
    IF i >= config.num_dacs THEN m
    ELSE set_data_pins(gpio_set_function(m, config.data_pins[i]), config, i + 1)

set_pins_multi_dac(m, config) ==
    set_data_pins(gpio_set_function(gpio_set_function(m, config.clock_pin_base),
                                    config.clock_pin_base + 1), config, 0)

RECURSIVE setup_dma_channels(_, _, _)
setup_dma_channels(m, config, i) ==
    IF i >= config.num_dacs \/ ~Ok(m) THEN m
    ELSE LET d == config.dma_channels[i]
         IN IF m.dma[d].claimed THEN Halt(m, "panic")
            ELSE setup_dma_channels(
                   [m EXCEPT !.dma[d] = [claimed |-> TRUE, inte |-> TRUE, intr |-> @.intr,
                                         busy |-> @.busy, src |-> NULL, incr |-> TRUE,
                                         count |-> 0,
                                         dreq |-> m.multi_dac_state.data_pio_sms[i]],
                             !.multi_dac_state.dma_channels[i] = d,
                             !.irqHandlers = @ \cup {"multi"}],
                   config, i + 1)

\* a variant that records the channel count before it validates it
audio_i2s_setup_multi_dac_count_first(m, config) ==
    LET m0 == [m EXCEPT !.multi_dac_state.num_dacs = config.num_dacs]
    IN IF config.num_dacs = 0 \/ config.num_dacs > PICO_AUDIO_I2S_MAX_DACS
       THEN [m |-> m0, ret |-> FALSE]
       ELSE [m |-> [setup_dma_channels(claim_data_sms(
                        [set_pins_multi_dac(m0, config)
                           EXCEPT !.sm[config.clock_pio_sm].claimed = TRUE,
                                   !.multi_dac_state.clock_pio_sm = config.clock_pio_sm],
                        config, 0), config, 0)
                      EXCEPT !.multi_dac_state.initialized = TRUE],
             ret |-> TRUE]

\* returns the machine and whether a format (TRUE) or NULL (FALSE) came back
audio_i2s_setup_multi_dac(m, config) ==
    IF config.num_dacs = 0 \/ config.num_dacs > PICO_AUDIO_I2S_MAX_DACS
    THEN [m |-> m, ret |-> FALSE]
    ELSE
      LET c == config.clock_pio_sm
          p == set_pins_multi_dac(m, config)
      IN IF p.sm[c].claimed THEN [m |-> Halt(p, "panic"), ret |-> FALSE]
         ELSE
           LET m1 == claim_data_sms([p EXCEPT !.sm[c].claimed = TRUE], config, 0)
               m2 == IF ~Ok(m1) THEN m1
                     ELSE [m1 EXCEPT !.multi_dac_state.clock_pio_sm = c,
                                     !.multi_dac_state.num_dacs = config.num_dacs]
               m3 == setup_dma_channels(m2, config, 0)
           IN IF ~Ok(m3) THEN [m |-> m3, ret |-> FALSE]
              ELSE [m |-> [m3 EXCEPT !.multi_dac_state.initialized = TRUE], ret |-> TRUE]

update_pio_frequency_multi_dac(m, sample_freq) ==
    LET system_clock_frequency == clock_get_hz
        m1 == AssertC(m, system_clock_frequency < 1073741824, "assert")
        divider == IF sample_freq = 0 THEN 0
                   ELSE U32Times4Div(system_clock_frequency, sample_freq)
        m2 == AssertC(m1, divider < 16777216, "assert")
        d == <<divider \div 256, divider % 256>>
        mds == m.multi_dac_state
    IN IF ~Ok(m2) THEN m2
       ELSE [m2 EXCEPT
               !.sm = [s \in SmIds |->
                         IF s = mds.clock_pio_sm
                            \/ \E i \in Dacs : i < mds.num_dacs /\ mds.data_pio_sms[i] = s
                         THEN [@[s] EXCEPT !.clkdiv = d]
                         ELSE @[s]],
               !.multi_dac_state.freq = sample_freq,
               !.wrote = TRUE,
               !.applied = sample_freq]

\* a variant that accepts any index once the engine is initialized
audio_i2s_connect_multi_dac_accepts_any_index(m, dac_index) ==
    m.multi_dac_state.initialized

\* if (!multi_dac_state.initialized || dac_index >= multi_dac_state.num_dacs) return false;
audio_i2s_connect_multi_dac_accepts(m, dac_index) ==
    m.multi_dac_state.initialized /\ dac_index < m.multi_dac_state.num_dacs

\* a variant that updates only when the rate differs
audio_i2s_connect_multi_dac_updates_rate_only(m, producer, dac_index) ==
    m.multi_dac_state.freq # m.pool[producer].freq

\* if (dac_index == 0 || multi_dac_state.freq != producer->format->sample_freq)
audio_i2s_connect_multi_dac_updates(m, producer, dac_index) ==
    dac_index = 0 \/ m.multi_dac_state.freq # m.pool[producer].freq

\* audio_i2s_connect_multi_dac after the index check, up to the choice of
\* the connection
audio_i2s_connect_multi_dac_begin(m, producer, dac_index) ==
    LET m1 == AssertC(m, m.pool[producer].format = "S16", "assert")
    IN IF ~Ok(m1) THEN m1
       ELSE LET n == audio_new_consumer_pool(m1, DefaultBufferCount, DefaultSamplesPerBuffer)
                m2 == [n.m EXCEPT !.multi_dac_state.consumers[dac_index] = n.ret,
                                  !.pool[n.ret].freq = m.pool[producer].freq]
            IN IF audio_i2s_connect_multi_dac_updates(m2, producer, dac_index)
               THEN update_pio_frequency_multi_dac(m2, m.pool[producer].freq)
               ELSE m2

\* the connection the multi connect ends with: audio_i2s.c completes
\* m2s_audio_i2s_ct_connection, audio_i2s_multi.c leaves the connection null
MultiConnection == IF variant = "audio_i2s.c" THEN "ct" ELSE NullConn

audio_i2s_connect_multi_dac_complete(m, c, producer, dac_index) ==
    IF c # NullConn
    THEN audio_complete_connection(m, c, producer, m.multi_dac_state.consumers[dac_index])
    ELSE m

audio_start_dma_transfer_multi_dac_take(m, dac_index, ub) ==
    LET m1 == AssertC(m, m.multi_dac_state.playing_buffers[dac_index] = NULL, "assert")
    IN IF ~Ok(m1) THEN [m |-> m1, ret |-> NULL]
       ELSE take_audio_buffer(m1, m1.multi_dac_state.consumers[dac_index], ub)

\* a variant that leaves the channel's read increment as the last transfer
\* set it when it arms a buffer
audio_start_dma_transfer_multi_dac_arm_stale_increment(m, dac_index, ab) ==
    LET m1 == [m EXCEPT !.multi_dac_state.playing_buffers[dac_index] = ab]
        ch == m.multi_dac_state.dma_channels[dac_index]
    IN IF ab = NULL
       THEN dma_channel_transfer_from_buffer_now(m1, ch, FALSE, ZeroWord,
                PICO_AUDIO_I2S_SILENCE_BUFFER_SAMPLE_LENGTH)
       ELSE dma_channel_transfer_from_buffer_now(m1, ch, m.dma[ch].incr, ab,
                m1.buf[ab].sample_count)

audio_start_dma_transfer_multi_dac_arm(m, dac_index, ab) ==
    LET m1 == [m EXCEPT !.multi_dac_state.playing_buffers[dac_index] = ab]
        ch == m.multi_dac_state.dma_channels[dac_index]
    IN IF ab = NULL
       THEN dma_channel_transfer_from_buffer_now(m1, ch, FALSE, ZeroWord,
                PICO_AUDIO_I2S_SILENCE_BUFFER_SAMPLE_LENGTH)
       ELSE
         LET m2 == AssertC(m1, m1.buf[ab].sample_count # 0, "assert")
             home == m1.pool[m1.buf[ab].home]
             m3 == AssertC(m2, /\ home.format = "S16"
                               /\ home.channel_count = (IF mono.output THEN 1 ELSE 2),
                           "assert")
         IN IF ~Ok(m3) THEN m3
            ELSE dma_channel_transfer_from_buffer_now(m3, ch, TRUE, ab,
                     m3.buf[ab].sample_count)

audio_start_dma_transfer_multi_dac(m, dac_index, ub) ==
    LET t == audio_start_dma_transfer_multi_dac_take(m, dac_index, ub)
    IN IF ~Ok(t.m) THEN t.m
       ELSE audio_start_dma_transfer_multi_dac_arm(t.m, dac_index, t.ret)

\* the loop body for a channel whose flag is raised, up to its call of
\* audio_start_dma_transfer_multi_dac: acknowledge, free the buffer just finished
audio_i2s_dma_irq_handler_multi_dac_release(m, i, ub) ==
    LET m1 == dma_irqn_acknowledge_channel(m, m.multi_dac_state.dma_channels[i])
        pb == m1.multi_dac_state.playing_buffers[i]
    IN IF pb # NULL
       THEN LET g == give_audio_buffer(m1, m1.multi_dac_state.consumers[i], pb, ub)
            IN IF ndebug THEN g
               ELSE [g EXCEPT !.multi_dac_state.playing_buffers[i] = NULL]
       ELSE m1

\* the loop over channels 0 .. n-1
RECURSIVE audio_i2s_dma_irq_handler_multi_dac_upto(_, _, _)
audio_i2s_dma_irq_handler_multi_dac_upto(m, n, ub) ==
    IF n = 0 THEN m
    ELSE
      LET m0 == audio_i2s_dma_irq_handler_multi_dac_upto(m, n - 1, ub)
          i == n - 1
      IN IF ~Ok(m0) \/ ~dma_irqn_get_channel_status(m0, m0.multi_dac_state.dma_channels[i])
         THEN m0
         ELSE LET m2 == audio_i2s_dma_irq_handler_multi_dac_release(m0, i, ub)
              IN IF ~Ok(m2) THEN m2 ELSE audio_start_dma_transfer_multi_dac(m2, i, ub)

audio_i2s_dma_irq_handler_multi_dac(m, ub) ==
    audio_i2s_dma_irq_handler_multi_dac_upto(m, m.multi_dac_state.num_dacs, ub)

\* the mask of the data state machines
DataSmMask(m) ==
    {m.multi_dac_state.data_pio_sms[i] : i \in 0..(m.multi_dac_state.num_dacs - 1)}

pio_set_sm_mask_enabled(m, mask, enabled) ==
    [m EXCEPT !.sm = [s \in SmIds |-> IF s \in mask THEN [@[s] EXCEPT !.enabled = enabled]
                                      ELSE @[s]]]

pio_sm_set_enabled(m, s, enabled) == [m EXCEPT !.sm[s].enabled = enabled]

\* a variant without the enabled != multi_dac_audio_enabled test
audio_i2s_set_enabled_multi_dac_proceeds_unguarded(m, enabled) ==
    m.multi_dac_state.initialized

\* if (!initialized) return; if (enabled != multi_dac_audio_enabled) irq_set_enabled(...)
audio_i2s_set_enabled_multi_dac_proceeds(m, enabled) ==
    m.multi_dac_state.initialized /\ enabled # m.multi_dac_audio_enabled

audio_i2s_set_enabled_multi_dac_entry(m, enabled) ==
    IF audio_i2s_set_enabled_multi_dac_proceeds(m, enabled)
    THEN [m EXCEPT !.irqEnabled = enabled]
    ELSE m

\* enable: the clock generator first
audio_i2s_set_enabled_multi_dac_clock(m) ==
    pio_sm_set_enabled(m, m.multi_dac_state.clock_pio_sm, TRUE)

\* a variant that starts only the first data state machine
audio_i2s_set_enabled_multi_dac_data_first_only(m) ==
    [pio_sm_set_enabled(m, m.multi_dac_state.data_pio_sms[0], TRUE)
       EXCEPT !.multi_dac_audio_enabled = TRUE]

\* enable: then all data state machines by one mask write
audio_i2s_set_enabled_multi_dac_data(m) ==
    [pio_set_sm_mask_enabled(m, DataSmMask(m), TRUE)
       EXCEPT !.multi_dac_audio_enabled = TRUE]

\* a variant that stops the data state machines and leaves the clock running
audio_i2s_set_enabled_multi_dac_stop_data_only(m) ==
    pio_set_sm_mask_enabled(m, DataSmMask(m), FALSE)

\* disable: clock and data state machines by one mask write
audio_i2s_set_enabled_multi_dac_stop(m) ==
    pio_set_sm_mask_enabled(m, {m.multi_dac_state.clock_pio_sm} \cup DataSmMask(m), FALSE)

RECURSIVE free_in_flight(_, _, _)
free_in_flight(m, i, ub) ==
    IF i >= m.multi_dac_state.num_dacs \/ ~Ok(m) THEN m
    ELSE LET pb == m.multi_dac_state.playing_buffers[i]
         IN IF pb # NULL
            THEN free_in_flight(
                   [give_audio_buffer(m, m.multi_dac_state.consumers[i], pb, ub)
                      EXCEPT !.multi_dac_state.playing_buffers[i] = NULL],
                   i + 1, ub)
            ELSE free_in_flight(m, i + 1, ub)

\* disable: free any buffers in flight; multi_dac_audio_enabled = false
audio_i2s_set_enabled_multi_dac_release(m, ub) ==
    LET m1 == free_in_flight(m, 0, ub)
    IN IF ~Ok(m1) THEN m1 ELSE [m1 EXCEPT !.multi_dac_audio_enabled = FALSE]

\* the call and its return value (the format, or NULL); i keeps the count asked for
SetupMulti(config) ==
    /\ AtIdle
    /\ LET r == audio_i2s_setup_multi_dac(M, config)
       IN /\ Commit(r.m)
          /\ pc' = IF Ok(r.m)
                   THEN [Idle EXCEPT !.step = "msetup_return", !.i = config.num_dacs,
                                     !.ret = IF r.ret THEN "format" ELSE "NULL"]
                   ELSE pc
    /\ UNCHANGED <<ndebug, variant, engine, mono, clk_sys, appHeld>>

\* the application reads what the call returned and goes on
ReturnMulti ==
    /\ Running
    /\ pc.step \in {"msetup_return", "mconnect_return"}
    /\ pc' = Idle
    /\ UNCHANGED <<halted, ndebug, variant, engine, mono, clk_sys, irqEnabled, irqHandlers, dma, sm, gpio, shared_state,
                   audio_i2s_consumer, audio_enabled, multi_dac_state,
                   multi_dac_audio_enabled, pool, buf, conn, npools, nbufs, appHeld,
                   ubSeen, arms, applied>>

ConnectMulti(producer, dac_index) ==
    /\ AtIdle
    /\ multi_dac_state.consumers[dac_index] = NULL
    /\ IF ~audio_i2s_connect_multi_dac_accepts(M, dac_index)
       THEN /\ pc' = [Idle EXCEPT !.step = "mconnect_return", !.ret = "false",
                                  !.p = producer, !.i = dac_index]
            /\ UNCHANGED <<halted, irqEnabled, irqHandlers, dma, sm, gpio, shared_state,
                           audio_i2s_consumer, audio_enabled, multi_dac_state,
                           multi_dac_audio_enabled, pool, buf, conn, npools, nbufs,
                           ubSeen, arms, applied>>
       ELSE LET b == audio_i2s_connect_multi_dac_begin(M, producer, dac_index)
            IN /\ Commit(b)
               /\ pc' = [Idle EXCEPT !.step = "mconnect_complete", !.c = MultiConnection,
                                     !.p = producer, !.i = dac_index, !.w = b.wrote]
    /\ UNCHANGED <<ndebug, variant, engine, mono, clk_sys, appHeld>>

ConnectMultiComplete ==
    /\ Running
    /\ pc.step = "mconnect_complete"
    /\ Commit(audio_i2s_connect_multi_dac_complete(M, pc.c, pc.p, pc.i))
    /\ pc' = [pc EXCEPT !.step = "mconnect_return", !.c = NullConn, !.ret = "true"]
    /\ UNCHANGED <<ndebug, variant, engine, mono, clk_sys, appHeld>>

SetEnabledMultiCall(enabled) ==
    /\ AtIdle
    /\ pc' = [Idle EXCEPT !.step = "me_entry", !.en = enabled]
    /\ UNCHANGED <<halted, ndebug, variant, engine, mono, clk_sys, irqEnabled, irqHandlers, dma, sm, gpio, shared_state,
                   audio_i2s_consumer, audio_enabled, multi_dac_state,
                   multi_dac_audio_enabled, pool, buf, conn, npools, nbufs, appHeld,
                   ubSeen, arms, applied>>

SetEnabledMultiEntry ==
    /\ Running
    /\ pc.step = "me_entry"
    /\ Commit(audio_i2s_set_enabled_multi_dac_entry(M, pc.en))
    /\ pc' = IF ~audio_i2s_set_enabled_multi_dac_proceeds(M, pc.en) THEN Idle
             ELSE [pc EXCEPT !.step = IF pc.en THEN "me_take" ELSE "me_stop", !.i = 0]
    /\ UNCHANGED <<ndebug, variant, engine, mono, clk_sys, appHeld>>

SetEnabledMultiTake ==
    /\ Running
    /\ pc.step = "me_take"
    /\ \E ub \in UBOutcomes :
         LET t == audio_start_dma_transfer_multi_dac_take(M, pc.i, ub)
         IN /\ Commit(t.m)
            /\ pc' = [pc EXCEPT !.step = "me_arm", !.ab = t.ret]
    /\ UNCHANGED <<ndebug, variant, engine, mono, clk_sys, appHeld>>

SetEnabledMultiArm ==
    /\ Running
    /\ pc.step = "me_arm"
    /\ Commit(audio_start_dma_transfer_multi_dac_arm(M, pc.i, pc.ab))
    /\ pc' = IF pc.i + 1 < multi_dac_state.num_dacs
             THEN [pc EXCEPT !.step = "me_take", !.ab = NULL, !.i = @ + 1]
             ELSE [pc EXCEPT !.step = "me_clock", !.ab = NULL, !.i = 0]
    /\ UNCHANGED <<ndebug, variant, engine, mono, clk_sys, appHeld>>

SetEnabledMultiClock ==
    /\ Running
    /\ pc.step = "me_clock"
    /\ Commit(audio_i2s_set_enabled_multi_dac_clock(M))
    /\ pc' = [pc EXCEPT !.step = "me_data"]
    /\ UNCHANGED <<ndebug, variant, engine, mono, clk_sys, appHeld>>

SetEnabledMultiData ==
    /\ Running
    /\ pc.step = "me_data"
    /\ Commit(audio_i2s_set_enabled_multi_dac_data(M))
    /\ pc' = Idle
    /\ UNCHANGED <<ndebug, variant, engine, mono, clk_sys, appHeld>>

SetEnabledMultiStop ==
    /\ Running
    /\ pc.step = "me_stop"
    /\ Commit(audio_i2s_set_enabled_multi_dac_stop(M))
    /\ pc' = [pc EXCEPT !.step = "me_free"]
    /\ UNCHANGED <<ndebug, variant, engine, mono, clk_sys, appHeld>>

SetEnabledMultiFree ==
    /\ Running
    /\ pc.step = "me_free"
    /\ \E ub \in UBOutcomes : Commit(audio_i2s_set_enabled_multi_dac_release(M, ub))
    /\ pc' = Idle
    /\ UNCHANGED <<ndebug, variant, engine, mono, clk_sys, appHeld>>

IrqMulti ==
    /\ halted = "no"
    /\ irqEnabled
    /\ "multi" \in irqHandlers
    /\ \E i \in Dacs : /\ i < multi_dac_state.num_dacs
                       /\ dma_irqn_get_channel_status(M, multi_dac_state.dma_channels[i])
    /\ \E ub \in UBOutcomes : Commit(audio_i2s_dma_irq_handler_multi_dac(M, ub))
    /\ UNCHANGED <<ndebug, variant, engine, mono, clk_sys, appHeld, pc>>

\* ------------------------------------------------------------ initial state
\* a producer pool as the application created it: its format's sample
\* format, channel count and sample rate
InitPoolAs(p, format, channel_count, sample_freq) ==
    IF p \in ProducerPools
    THEN [type |-> "producer", conn |-> NullConn,
          free |-> <<p>>,
          full |-> <<>>, freq |-> sample_freq, format |-> format,
          channel_count |-> channel_count]
    ELSE [type |-> "none", conn |-> NullConn, free |-> <<>>, full |-> <<>>,
          freq |-> 0, format |-> "S16", channel_count |-> 2]

InitPool(p) == InitPoolAs(p, "S16", 2, 44100)

InitBuf(b, capacity) ==
    IF b \in ProducerPools
    THEN [sample_count |-> 0, max_sample_count |-> capacity, home |-> b]
    ELSE [sample_count |-> 0, max_sample_count |-> 0, home |-> NULL]

\* the build with stereo input and stereo output (the defaults)
StereoBuild == [input |-> FALSE, output |-> FALSE]

\* hardware and engine state before any call
InitState ==
    /\ halted = "no"
    /\ irqEnabled = FALSE
    /\ irqHandlers = {}
    /\ dma = [ch \in DmaIds |-> [claimed |-> FALSE, inte |-> FALSE, intr |-> FALSE,
                                 busy |-> FALSE, src |-> NULL, incr |-> TRUE,
                                 count |-> 0, dreq |-> 0]]
    /\ sm = [s \in SmIds |-> [claimed |-> FALSE, enabled |-> FALSE, clkdiv |-> <<1, 0>>]]
    /\ gpio = [pin \in Pins |-> 0]
    /\ shared_state = [playing_buffer |-> NULL, freq |-> 0, pio_sm |-> 0, dma_channel |-> 0]
    /\ audio_i2s_consumer = NULL
    /\ audio_enabled = FALSE
    /\ multi_dac_state = [playing_buffers |-> [i \in Dacs |-> NULL],
                          consumers |-> [i \in Dacs |-> NULL],
                          freq |-> 0, num_dacs |-> 0, clock_pio_sm |-> 0,
                          data_pio_sms |-> [i \in Dacs |-> 0],
                          dma_channels |-> [i \in Dacs |-> 0],
                          initialized |-> FALSE]
    /\ multi_dac_audio_enabled = FALSE
    /\ conn = [c \in ConnIds |-> [producer_pool |-> NULL, consumer_pool |-> NULL,
                                  cur |-> NULL, pos |-> 0]]
    /\ npools = NProducerPools
    /\ nbufs = NProducerPools
    /\ appHeld = {}
    /\ pc = Idle
    /\ ubSeen = FALSE
    /\ arms = 0
    /\ applied = 0

\* the default build at the default system clock, 16-bit stereo producers
Init ==
    /\ InitState
    /\ ndebug \in BOOLEAN
    /\ variant \in {"audio_i2s.c", "audio_i2s_multi.c"}
    /\ engine \in {"single", "multi"}
    /\ engine = "single" => variant = "audio_i2s.c"
    /\ mono = StereoBuild
    /\ clk_sys = DefaultSystemClock
    /\ pool = [p \in PoolIds |-> InitPool(p)]
    /\ \E capacity \in ProducerCapacities(engine) : buf = [b \in BufIds |-> InitBuf(b, capacity)]

NextSingle ==
    \/ Setup
    \/ Connect
    \/ ConnectExtra(FALSE, 0, DefaultSamplesPerBuffer)
    \/ ConnectComplete
    \/ \E e \in BOOLEAN : SetEnabledCall(e)
    \/ SetEnabledEntry
    \/ SetEnabledTake
    \/ SetEnabledArm
    \/ SetEnabledGive
    \/ SetEnabledFinish
    \/ IrqSingle
    \/ \E ch \in DmaIds : DmaComplete(ch)
    \/ ProducerTake(SingleProducer)
    \/ \E b \in BufIds : ProducerGive(b)

InitSingle == Init /\ engine = "single"

SpecSingle == InitSingle /\ [][NextSingle]_vars

NextMulti ==
    \/ \E config \in SetupConfigs : SetupMulti(config)
    \/ ReturnMulti
    \/ \E i \in 0..2 : ConnectMulti(ProducerOf(i), i)
    \/ ConnectMultiComplete
    \/ \E e \in BOOLEAN : SetEnabledMultiCall(e)
    \/ SetEnabledMultiEntry
    \/ SetEnabledMultiTake
    \/ SetEnabledMultiArm
    \/ SetEnabledMultiClock
    \/ SetEnabledMultiData
    \/ SetEnabledMultiStop
    \/ SetEnabledMultiFree
    \/ IrqMulti
    \/ \E ch \in DmaIds : DmaComplete(ch)
    \/ \E p \in MultiProducers : ProducerTake(p)
    \/ \E b \in BufIds : ProducerGive(b)

\* The round trip scenario on the single-output engine: setup, one connect
\* (default or pass-through), one full buffer given, set_enabled(true), the
\* first transfer completes, the completion handler runs once.
RoundTripGiven == \E p \in PoolIds : pool[p].full # <<>>

NextRoundTrip ==
    \/ ~SingleSetUp /\ Setup
    \/ audio_i2s_consumer = NULL /\ Connect
    \/ audio_i2s_consumer = NULL /\ ConnectExtra(FALSE, 0, DefaultSamplesPerBuffer)
    \/ ConnectComplete
    \/ arms = 0 /\ ProducerTake(SingleProducer)
    \/ \E b \in BufIds : ProducerGive(b)
    \/ arms = 0 /\ RoundTripGiven /\ SetEnabledCall(TRUE)
    \/ SetEnabledEntry
    \/ SetEnabledTake
    \/ SetEnabledArm
    \/ SetEnabledFinish
    \/ arms = 1 /\ DmaComplete(shared_state.dma_channel)
    \/ arms = 1 /\ IrqSingle

SpecRoundTrip == InitSingle /\ [][NextRoundTrip]_vars

InitMulti == Init /\ engine = "multi"

SpecMulti == InitMulti /\ [][NextMulti]_vars

\* either engine, as the application chose
NextBoth ==
    \/ engine = "single" /\ NextSingle
    \/ engine = "multi" /\ NextMulti

SpecBoth == Init /\ [][NextBoth]_vars

\* Streaming: either engine is set up once, connected, enabled and never
\* disabled.  Every triggered transfer eventually completes (its state
\* machine runs) and every raised completion interrupt is eventually
\* serviced: weak fairness of the DMA completions and of the handlers.
NextStream ==
    \/ engine = "single" /\ ~SingleSetUp /\ Setup
    \/ engine = "single" /\ Connect
    \/ engine = "single" /\ ConnectExtra(FALSE, 0, DefaultSamplesPerBuffer)
    \/ ConnectComplete
    \/ engine = "single" /\ SetEnabledCall(TRUE)
    \/ SetEnabledEntry
    \/ SetEnabledTake
    \/ SetEnabledArm
    \/ SetEnabledFinish
    \/ IrqSingle
    \/ engine = "multi" /\ ~multi_dac_state.initialized /\ SetupMulti(MultiConfig)
    \/ ReturnMulti
    \/ engine = "multi" /\ (\E i \in 0..1 : ConnectMulti(ProducerOf(i), i))
    \/ ConnectMultiComplete
    \/ engine = "multi" /\ SetEnabledMultiCall(TRUE)
    \/ SetEnabledMultiEntry
    \/ SetEnabledMultiTake
    \/ SetEnabledMultiArm
    \/ SetEnabledMultiClock
    \/ SetEnabledMultiData
    \/ IrqMulti
    \/ \E ch \in DmaIds : DmaComplete(ch)
    \/ \E p \in ProducerPools : ProducerTake(p)
    \/ \E b \in BufIds : ProducerGive(b)

\* ENABLED IrqSingle and ENABLED IrqMulti, written out: the line is enabled,
\* the handler is installed and a channel it serves has its flag raised
IrqSingleReady ==
    /\ halted = "no"
    /\ irqEnabled
    /\ "single" \in irqHandlers
    /\ dma_irqn_get_channel_status(M, shared_state.dma_channel)

IrqMultiReady ==
    /\ halted = "no"
    /\ irqEnabled
    /\ "multi" \in irqHandlers
    /\ \E i \in Dacs : /\ i < multi_dac_state.num_dacs
                       /\ dma_irqn_get_channel_status(M, multi_dac_state.dma_channels[i])

\* weak fairness of the two handlers, with ENABLED written out
IrqFairness ==
    /\ <>[]IrqSingleReady => []<><<IrqSingle>>_vars
    /\ <>[]IrqMultiReady => []<><<IrqMulti>>_vars

SpecStream ==
    /\ Init
    /\ [][NextStream]_vars
    /\ \A ch \in DmaIds : WF_vars(DmaComplete(ch))
    /\ IrqFairness

\* The multi-output engine with producers whose sample rate the application
\* may change: set up once, channels connected in any order, enabled; the
\* producers give nothing, every take finds the pools empty.
NextRate ==
    \/ ~multi_dac_state.initialized /\ SetupMulti(MultiConfig)
    \/ ReturnMulti
    \/ \E i \in 0..1 : ConnectMulti(ProducerOf(i), i)
    \/ ConnectMultiComplete
    \/ SetEnabledMultiCall(TRUE)
    \/ SetEnabledMultiEntry
    \/ SetEnabledMultiTake
    \/ SetEnabledMultiArm
    \/ SetEnabledMultiClock
    \/ SetEnabledMultiData
    \/ IrqMulti
    \/ \E ch \in DmaIds : DmaComplete(ch)
    \/ \E p \in MultiProducers, r \in SampleRates : ProducerSetRate(p, r)

SpecRate == InitMulti /\ [][NextRate]_vars

\* The frequency controller over clocks and rates: either engine is set up
\* once and connected (the single output by connect or connect_s8, twice at
\* most), the producer may change its rate, the single output is enabled
\* and streams silence.
InitDivider ==
    /\ InitState
    /\ ndebug \in BOOLEAN
    /\ engine \in {"single", "multi"}
    /\ variant = "audio_i2s.c"
    /\ mono = StereoBuild
    /\ clk_sys \in SystemClocks
    /\ \E format \in {"S16", "S8"}, r \in DividerRates :
          /\ engine = "multi" => format = "S16"
          /\ pool = [p \in PoolIds |-> InitPoolAs(p, format, 2, r)]
    /\ buf = [b \in BufIds |-> InitBuf(b, DefaultSamplesPerBuffer)]

NextDivider ==
    \/ engine = "single" /\ ~SingleSetUp /\ Setup
    \/ engine = "single" /\ SingleSetUp /\ ConnectDefault
    \/ engine = "single" /\ SingleSetUp /\ ConnectS8
    \/ ConnectComplete
    \/ \E r \in DividerRates :
         ProducerSetRate(IF engine = "single" THEN SingleProducer ELSE ProducerOf(0), r)
    \/ engine = "single" /\ ~audio_enabled /\ SetEnabledCall(TRUE)
    \/ SetEnabledEntry
    \/ SetEnabledTake
    \/ SetEnabledArm
    \/ SetEnabledFinish
    \/ IrqSingle
    \/ \E ch \in DmaIds : DmaComplete(ch)
    \/ engine = "multi" /\ ~multi_dac_state.initialized /\ SetupMulti(MultiConfig)
    \/ ReturnMulti
    \/ engine = "multi" /\ (\E i \in 0..1 : ConnectMulti(ProducerOf(0), i))
    \/ ConnectMultiComplete

SpecDivider == InitDivider /\ [][NextDivider]_vars

\* the builds of audio_i2s.c: stereo, mono input with stereo output, mono
\* input with mono output (with stereo input and mono output the wrapped
\* hooks do not compile)
Builds == {StereoBuild, [input |-> TRUE, output |-> FALSE], [input |-> TRUE, output |-> TRUE]}

\* The connect entry points of the single-output engine over builds and
\* producer formats: set up once, connected once through any entry point
\* (null or custom connection argument), the producer takes and gives
\* buffers and may change its rate, the output is enabled and streams.
InitConnect ==
    /\ InitState
    /\ ndebug \in BOOLEAN
    /\ engine = "single"
    /\ variant = "audio_i2s.c"
    /\ mono \in Builds
    /\ clk_sys = DefaultSystemClock
    /\ \E format \in {"S16", "S8"}, channel_count \in {1, 2} :
          pool = [p \in PoolIds |-> InitPoolAs(p, format, channel_count, 44100)]
    /\ buf = [b \in BufIds |-> InitBuf(b, DefaultSamplesPerBuffer)]

\* the application connects once, after setup
MayConnect == SingleSetUp /\ audio_i2s_consumer = NULL

NextConnect ==
    \/ ~SingleSetUp /\ Setup
    \/ MayConnect /\ ConnectDefault
    \/ MayConnect /\ (\E a \in {NullConn, "custom"} : ConnectThru("connect_thru", a))
    \/ MayConnect /\ (\E g \in BOOLEAN, n \in {0, DefaultBufferCount}, a \in {NullConn, "custom"} :
                         ConnectExtraWith("connect_extra", g, n, DefaultSamplesPerBuffer, a))
    \/ MayConnect /\ ConnectS8
    \/ ConnectComplete
    \/ \E r \in SampleRates : ProducerSetRate(SingleProducer, r)
    \/ ProducerTake(SingleProducer)
    \/ \E b \in BufIds : ProducerGiveHook(b)
    \/ ProducerGiveResume
    \/ ~audio_enabled /\ SetEnabledCall(TRUE)
    \/ SetEnabledEntry
    \/ SetEnabledTake
    \/ SetEnabledArm
    \/ SetEnabledFinish
    \/ IrqSingle
    \/ \E ch \in DmaIds : DmaComplete(ch)

SpecConnect == InitConnect /\ [][NextConnect]_vars

\* Both engines in one application: the single output on the DMA channel
\* and state machine the multi-output configuration leaves free.
CoexistConfig == [data_pin |-> 22, clock_pin_base |-> 24, dma_channel |-> 2, pio_sm |-> 3]

SetupAt(config) ==
    /\ AtIdle
    /\ Commit(audio_i2s_setup(M, config))
    /\ UNCHANGED <<ndebug, variant, engine, mono, clk_sys, appHeld, pc>>

InitCoexist ==
    /\ InitState
    /\ ndebug \in BOOLEAN
    /\ variant \in {"audio_i2s.c", "audio_i2s_multi.c"}
    /\ engine = "both"
    /\ mono = StereoBuild
    /\ clk_sys = DefaultSystemClock
    /\ pool = [p \in PoolIds |-> InitPool(p)]
    /\ buf = [b \in BufIds |-> InitBuf(b, DefaultSamplesPerBuffer)]

\* every output of either engine has its producer connected
AllConnected ==
    /\ audio_i2s_consumer # NULL
    /\ \A i \in 0..(MultiConfig.num_dacs - 1) : multi_dac_state.consumers[i] # NULL

\* the application sets both engines up, connects the single output, then
\* each multi-output channel, fills its producers' buffers, and then
\* switches either engine on and off
NextCoexist ==
    \/ ~SingleSetUp /\ SetupAt(CoexistConfig)
    \/ SingleSetUp /\ ~multi_dac_state.initialized /\ SetupMulti(MultiConfig)
    \/ ReturnMulti
    \/ multi_dac_state.initialized /\ audio_i2s_consumer = NULL /\ Connect
    \/ ConnectComplete
    \/ audio_i2s_consumer # NULL /\ (\E i \in 0..1 : ConnectMulti(ProducerOf(i), i))
    \/ ConnectMultiComplete
    \/ \E p \in ProducerPools : arms = 0 /\ AllConnected /\ ProducerTake(p)
    \/ \E b \in BufIds : ProducerGive(b)
    \/ \E e \in BOOLEAN : AllConnected /\ SetEnabledCall(e)
    \/ SetEnabledEntry
    \/ SetEnabledTake
    \/ SetEnabledArm
    \/ SetEnabledGive
    \/ SetEnabledFinish
    \/ \E e \in BOOLEAN : AllConnected /\ SetEnabledMultiCall(e)
    \/ SetEnabledMultiEntry
    \/ SetEnabledMultiTake
    \/ SetEnabledMultiArm
    \/ SetEnabledMultiClock
    \/ SetEnabledMultiData
    \/ SetEnabledMultiStop
    \/ SetEnabledMultiFree
    \/ IrqSingle
    \/ IrqMulti
    \/ \E ch \in DmaIds : DmaComplete(ch)

SpecCoexist == InitCoexist /\ [][NextCoexist]_vars

\* Setup of the multi-output engine over configurations that reuse a
\* hardware resource, with or without an earlier claimant of a state
\* machine or DMA channel.
ClashConfigs ==
    {MultiConfig,
     [MultiConfig EXCEPT !.clock_pio_sm = MultiConfig.data_pio_sms[1]],
     [MultiConfig EXCEPT !.data_pio_sms[1] = MultiConfig.data_pio_sms[0]],
     [MultiConfig EXCEPT !.dma_channels[1] = MultiConfig.dma_channels[0]],
     [MultiConfig EXCEPT !.data_pins[1] = MultiConfig.data_pins[0]],
     [MultiConfig EXCEPT !.data_pins[1] = MultiConfig.clock_pin_base],
     [MultiConfig EXCEPT !.data_pins[0] = MultiConfig.clock_pin_base + 1]}

\* an earlier audio_i2s_setup on pins of its own: away from the multi-output
\* resources, on the clock state machine, on a DMA channel
PriorConfigs ==
    {CoexistConfig,
     [CoexistConfig EXCEPT !.pio_sm = MultiConfig.clock_pio_sm],
     [CoexistConfig EXCEPT !.dma_channel = MultiConfig.dma_channels[1]]}

InitSetup == Init /\ engine = "multi"

NextSetup ==
    \/ \E config \in PriorConfigs :
         ~SingleSetUp /\ ~multi_dac_state.initialized /\ SetupAt(config)
    \/ \E config \in ClashConfigs : ~multi_dac_state.initialized /\ SetupMulti(config)
    \/ ReturnMulti
    \/ \E i \in 0..1 : ConnectMulti(ProducerOf(i), i)
    \/ ConnectMultiComplete

SpecSetup == InitSetup /\ [][NextSetup]_vars

\* Runtime reconnection of the single output: after setup the application
\* calls audio_i2s_connect again while it streams, gives buffers, and
\* switches the output on and off.
NextReconnect ==
    \/ ~SingleSetUp /\ Setup
    \/ SingleSetUp /\ ConnectDefault
    \/ ConnectComplete
    \/ ProducerTake(SingleProducer)
    \/ \E b \in BufIds : ProducerGive(b)
    \/ \E e \in BOOLEAN : audio_i2s_consumer # NULL /\ SetEnabledCall(e)
    \/ SetEnabledEntry
    \/ SetEnabledTake
    \/ SetEnabledArm
    \/ SetEnabledGive
    \/ SetEnabledFinish
    \/ IrqSingle
    \/ \E ch \in DmaIds : DmaComplete(ch)

SpecReconnect == InitSingle /\ [][NextReconnect]_vars

\* ------------------------------------------------------------ properties
ConfiguredDacs == {i \in Dacs : i < multi_dac_state.num_dacs}
ClockRunning == sm[multi_dac_state.clock_pio_sm].enabled
DataRunning(i) == sm[multi_dac_state.data_pio_sms[i]].enabled
ChannelArmed(i) == dma[multi_dac_state.dma_channels[i]].busy
NoUnitRunning == ~ClockRunning /\ \A i \in ConfiguredDacs : ~DataRunning(i)

\* C1: enabling the multi-output engine arms every configured channel's DMA
\* (buffer or silence) before the clock unit is started, starts the clock
\* unit before any data unit, and starts all data units by one mask write:
\* while the channels are being armed no unit runs, when the clock is about
\* to start or has just started every channel is armed, a running data unit
\* implies a running clock, and the data units run all or none.
C1_EnableOrder ==
    /\ \A i, j \in ConfiguredDacs : DataRunning(i) = DataRunning(j)
    /\ (\E i \in ConfiguredDacs : DataRunning(i)) => ClockRunning
    /\ pc.step \in {"me_take", "me_arm", "me_clock"} => NoUnitRunning
    /\ (pc.step \in {"me_clock", "me_data"} /\ halted = "no") =>
          \A i \in ConfiguredDacs : ChannelArmed(i)
    /\ pc.step = "me_data" => \A i \in ConfiguredDacs : ~DataRunning(i)

C1_Enabled ==
    /\ halted = "no"
    /\ pc.step = "idle"
    /\ multi_dac_audio_enabled
    /\ Cardinality(ConfiguredDacs) = MultiConfig.num_dacs
    /\ ClockRunning
    /\ \A i \in ConfiguredDacs : DataRunning(i) /\ multi_dac_state.consumers[i] # NULL

AllocatedBufs == 1..nbufs
FreePlaces(b) ==
    {pk \in PoolIds \X BufIds : pk[2] <= Len(pool[pk[1]].free) /\ pool[pk[1]].free[pk[2]] = b}
FullPlaces(b) ==
    {pk \in PoolIds \X BufIds : pk[2] <= Len(pool[pk[1]].full) /\ pool[pk[1]].full[pk[2]] = b}
PlayingSlots(b) ==
    {i \in Dacs : multi_dac_state.playing_buffers[i] = b}
      \cup (IF shared_state.playing_buffer = b THEN {"single"} ELSE {})
HandOvers(b) ==
    {c \in ConnIds : conn[c].cur = b}
      \cup (IF b \in appHeld THEN {"application"} ELSE {})
      \cup (IF pc.ab = b THEN {"taken"} ELSE {})
Holders(b) ==
    Cardinality(FreePlaces(b)) + Cardinality(FullPlaces(b))
      + Cardinality(PlayingSlots(b)) + Cardinality(HandOvers(b))
\* a transfer reading buffer b has been triggered and has not completed
TransferArmed(b) == \E ch \in DmaIds : dma[ch].busy /\ dma[ch].incr /\ dma[ch].src = b

\* C3: in every reachable state each audio buffer is held by exactly one of
\* producer free list, producer ready queue, in-flight slot, consumer pool
\* list, and a buffer whose transfer is armed and not yet complete is not
\* back in a pool.
C3_ExclusiveOwnership ==
    (halted = "no" /\ ~ubSeen) =>
      \A b \in AllocatedBufs :
        /\ Holders(b) = 1
        /\ TransferArmed(b) => (FreePlaces(b) = {} /\ FullPlaces(b) = {})

\* the transfer armed on a channel is the silence transfer
SilenceArmed(d) ==
    /\ d.busy
    /\ ~d.incr
    /\ d.src = ZeroWord
    /\ d.count = PICO_AUDIO_I2S_SILENCE_BUFFER_SAMPLE_LENGTH

\* the transfer armed on a channel reads buffer b
BufferArmed(d, b) == d.busy /\ d.incr /\ d.src = b /\ b # NULL

\* C4: while a transfer is armed on the output channel, the playing slot is
\* empty exactly when that transfer is the silence transfer: never empty
\* while a real buffer's transfer is armed, never non-empty while silence is
\* armed (with no transfer armed the channel is between a release and the
\* next arm).
C4_SlotMatchesTransfer ==
    (halted = "no" /\ ~ubSeen) =>
      LET d == dma[shared_state.dma_channel]
          pb == shared_state.playing_buffer
      IN d.busy => /\ (pb = NULL <=> SilenceArmed(d))
                   /\ (pb # NULL <=> BufferArmed(d, pb))

\* C5: the completion interrupt handler never runs between the moment
\* set_enabled begins its enable or disable sequence and its last write to
\* the playing slot.
C5_WritersExclusive ==
    [][~(IrqSingle /\ ~ubSeen /\ pc.step \in {"se_take", "se_arm", "se_give"})]_vars

\* a consumer pool pointer the handler can use: written by connect and its
\* connection completed
Connected(p) == p # NULL /\ pool[p].conn # NullConn

\* C6: every value the completion handler reads was written before the
\* interrupt source was enabled, for any order of setup, connect and
\* set_enabled(true): at every step that enables the interrupt source the
\* consumer pool pointer has been written and connected.
C6_InitializedBeforeIrq ==
    [][(~irqEnabled /\ irqEnabled') => Connected(audio_i2s_consumer)]_vars

\* the non-blocking take of the single-output handler comes back with no buffer
HandlerTakeEmpty ==
    /\ Connected(audio_i2s_consumer)
    /\ LET r == audio_i2s_dma_irq_handler_release(M, "null")
           t == audio_start_dma_transfer_take(r, "null")
       IN Ok(t.m) /\ t.ret = NULL

\* channel i of the multi-output handler is served and its non-blocking take
\* comes back with no buffer
MultiHandlerTakeEmpty(i) ==
    /\ \A j \in ConfiguredDacs : Connected(multi_dac_state.consumers[j])
    /\ LET pre == audio_i2s_dma_irq_handler_multi_dac_upto(M, i, "null")
       IN /\ Ok(pre)
          /\ dma_irqn_get_channel_status(pre, pre.multi_dac_state.dma_channels[i])
          /\ LET r == audio_i2s_dma_irq_handler_multi_dac_release(pre, i, "null")
                 t == audio_start_dma_transfer_multi_dac_take(r, i, "null")
             IN /\ Ok(t.m) /\ t.ret = NULL
                /\ Ok(audio_start_dma_transfer_multi_dac_arm(t.m, i, t.ret))

\* C7: whenever the non-blocking take returns no buffer, arm-or-silence
\* (single and multi, from set_enabled and from the interrupt handler)
\* triggers the channel with read increment disabled, source the static zero
\* word and length exactly the silence length, leaves the playing slot
\* empty, and does not halt.
C7_SilenceOnUnderrun ==
    [][/\ (pc.step = "se_arm" /\ pc.ab = NULL /\ pc'.step = "se_sm") =>
            /\ halted' = "no"
            /\ SilenceArmed(dma'[shared_state.dma_channel])
            /\ shared_state'.playing_buffer = NULL
       /\ (IrqSingle /\ HandlerTakeEmpty) =>
            /\ halted' = "no"
            /\ SilenceArmed(dma'[shared_state.dma_channel])
            /\ shared_state'.playing_buffer = NULL
       /\ (pc.step = "me_arm" /\ pc.ab = NULL /\ pc' # pc) =>
            /\ halted' = "no"
            /\ SilenceArmed(dma'[multi_dac_state.dma_channels[pc.i]])
            /\ multi_dac_state'.playing_buffers[pc.i] = NULL
       /\ \A i \in ConfiguredDacs :
            (IrqMulti /\ MultiHandlerTakeEmpty(i)) =>
              /\ SilenceArmed(dma'[multi_dac_state.dma_channels[i]])
              /\ multi_dac_state'.playing_buffers[i] = NULL
      ]_vars

\* the handler has re-armed a connected, running output with silence
C7_Underrun ==
    /\ halted = "no"
    /\ ~ubSeen
    /\ audio_enabled
    /\ pc.step = "idle"
    /\ Connected(audio_i2s_consumer)
    /\ arms > 1
    /\ shared_state.playing_buffer = NULL
    /\ SilenceArmed(dma[shared_state.dma_channel])

\* the producer's buffer is back in the producer's free list, and nothing else is
Released == pool[SingleProducer].free = <<SingleProducer>>

C9_UnconnectedToggle ==
    audio_i2s_consumer = NULL =>
      /\ pc.step \in {"se_entry", "se_take", "se_arm", "se_give", "se_sm"} => halted = "no"
      /\ (pc.step = "idle" /\ ~audio_enabled /\ halted = "no") =>
            shared_state.playing_buffer = NULL

\* C10: set_enabled(true) while Enabled and set_enabled(false) while Disabled
\* change nothing: the call returns at once with no pool take or give, no
\* DMA arm, no change of the interrupt source or state machine, and the
\* playing slot unchanged.
C10_Idempotent ==
    [][(pc.step = "se_entry" /\ pc.en = audio_enabled /\ pc' # pc) =>
         /\ pc' = Idle
         /\ UNCHANGED <<halted, irqEnabled, irqHandlers, dma, sm, gpio, shared_state,
                        audio_i2s_consumer, audio_enabled, pool, buf, conn, npools,
                        nbufs, appHeld, ubSeen, arms, applied>>]_vars

\* a redundant enable call is at its test while a buffer is playing
C10_RedundantEnable ==
    /\ halted = "no"
    /\ pc.step = "se_entry"
    /\ pc.en
    /\ audio_enabled
    /\ shared_state.playing_buffer # NULL

\* everything the engines and the pools hold (all but the normal-context position)
engineVars == <<halted, irqEnabled, irqHandlers, dma, sm, gpio, shared_state, audio_i2s_consumer,
                audio_enabled, multi_dac_state, multi_dac_audio_enabled, pool, buf, conn,
                npools, nbufs, appHeld, ubSeen, arms, applied>>

\* C11: set_enabled_multi called with the state the multi-output engine is
\* already in changes nothing: the call returns at its test with no take or
\* give on any channel, no DMA arm, no unit started or stopped and no change
\* of the interrupt source, so a second identical call leaves the state of
\* the first.
C11_MultiIdempotent ==
    [][(pc.step = "me_entry" /\ pc.en = multi_dac_audio_enabled /\ pc' # pc) =>
         (pc' = Idle /\ UNCHANGED engineVars)]_vars

\* a redundant enable call is at its test while a channel's buffer is playing
C11_RedundantMultiEnable ==
    /\ halted = "no"
    /\ pc.step = "me_entry"
    /\ pc.en
    /\ multi_dac_audio_enabled
    /\ \E i \in ConfiguredDacs : multi_dac_state.playing_buffers[i] # NULL

\* every unit and DMA channel the configuration names is unclaimed
ResourcesFree(config) ==
    /\ ~sm[config.clock_pio_sm].claimed
    /\ \A i \in Dacs : i < config.num_dacs =>
         /\ ~sm[config.data_pio_sms[i]].claimed
         /\ ~dma[config.dma_channels[i]].claimed

\* C12: setup_multi asked for 0 channels or for more than MAX_DACS returns
\* the failure sentinel, claims no unit and no DMA channel and leaves all
\* engine state (the initialized flag included) unchanged; asked for 2
\* channels with all resources free it returns the format and the engine is
\* initialized.
C12_SetupMultiResult ==
    [][/\ (pc.step = "idle" /\ pc'.step = "msetup_return"
             /\ (pc'.i = 0 \/ pc'.i > PICO_AUDIO_I2S_MAX_DACS)) =>
            (pc'.ret = "NULL" /\ UNCHANGED engineVars)
       /\ (SetupMulti(MultiConfig) /\ ResourcesFree(MultiConfig)) =>
            /\ halted' = "no"
            /\ pc'.step = "msetup_return"
            /\ pc'.ret = "format"
            /\ multi_dac_state'.initialized
            /\ multi_dac_state'.num_dacs = MultiConfig.num_dacs]_vars

\* a rejected setup has returned to an engine that was never initialized
C12_SetupRejected ==
    /\ halted = "no"
    /\ pc.step = "msetup_return"
    /\ pc.i > PICO_AUDIO_I2S_MAX_DACS
    /\ pc.ret = "NULL"
    /\ ~multi_dac_state.initialized

\* C13: setup_multi accepts only channel counts in 2..MAX_DACS: any other
\* count, 1 included, returns the failure sentinel, and an initialized
\* multi-output engine has between 2 and MAX_DACS active channels.
C13_SetupMultiRange ==
    /\ (pc.step = "msetup_return" /\ pc.i \notin 2..PICO_AUDIO_I2S_MAX_DACS) => pc.ret = "NULL"
    /\ multi_dac_state.initialized => multi_dac_state.num_dacs \in 2..PICO_AUDIO_I2S_MAX_DACS

\* C14: connect_multi(producer, index) on an engine that is not initialized
\* or with index >= the configured channel count returns false and mutates
\* nothing: consumer pool pointers, consumer formats, connections, the shared
\* frequency and every clock divider are unchanged.
C14_ConnectMultiRejects ==
    [][(/\ pc.step = "idle"
        /\ pc'.step \in {"mconnect_return", "mconnect_complete"}
        /\ (~multi_dac_state.initialized \/ pc'.i >= multi_dac_state.num_dacs)) =>
         /\ pc'.step = "mconnect_return"
         /\ pc'.ret = "false"
         /\ UNCHANGED engineVars]_vars

\* an out-of-range connect has returned false on an engine that has a
\* connected channel
C14_OutOfRangeRejected ==
    /\ halted = "no"
    /\ pc.step = "mconnect_return"
    /\ pc.ret = "false"
    /\ multi_dac_state.initialized
    /\ pc.i >= multi_dac_state.num_dacs
    /\ \E i \in ConfiguredDacs : multi_dac_state.consumers[i] # NULL

\* the engine was set up with a channel count of the documented range
SetupInRange == multi_dac_state.num_dacs \in 2..PICO_AUDIO_I2S_MAX_DACS

\* C15: whenever connect_multi(producer, i) returns true, a connection has
\* been completed that binds that producer pool to channel i's consumer
\* pool: the connection is not null and both pools and the connection point
\* at each other.
C15_ConnectMultiBinds ==
    (halted = "no" /\ SetupInRange /\ pc.step = "mconnect_return" /\ pc.ret = "true") =>
      LET cp == multi_dac_state.consumers[pc.i]
      IN /\ Connected(cp)
         /\ pool[pc.p].conn = pool[cp].conn
         /\ conn[pool[cp].conn].producer_pool = pc.p
         /\ conn[pool[cp].conn].consumer_pool = cp

\* C16: every connected channel keeps its own source: the connection its
\* consumer pool takes through is bound to that consumer pool and to the
\* producer the application connected to that channel, whatever was
\* connected to other channels afterwards.
C16_IndependentSources ==
    \A i \in ConfiguredDacs :
      LET cp == multi_dac_state.consumers[i]
      IN (halted = "no" /\ pc.step = "idle" /\ Connected(cp)) =>
           /\ conn[pool[cp].conn].consumer_pool = cp
           /\ conn[pool[cp].conn].producer_pool = ProducerOf(i)

\* C17: set_enabled_multi(true) while some configured channel was never
\* connected (and every other one is connected) completes without a fault,
\* and has that channel armed with a silence transfer before the units start.
C17_PartialConnectEnable ==
    (/\ pc.step \in {"me_take", "me_arm", "me_clock", "me_data"}
     /\ SetupInRange
     /\ \E i \in ConfiguredDacs : multi_dac_state.consumers[i] = NULL
     /\ \A i \in ConfiguredDacs :
          multi_dac_state.consumers[i] = NULL \/ Connected(multi_dac_state.consumers[i])) =>
      /\ halted = "no"
      /\ pc.step \in {"me_clock", "me_data"} =>
           \A i \in ConfiguredDacs :
             multi_dac_state.consumers[i] = NULL =>
               /\ SilenceArmed(dma[multi_dac_state.dma_channels[i]])
               /\ multi_dac_state.playing_buffers[i] = NULL

\* the DMA channels of the engine that is Enabled
OutputChannels ==
    (IF audio_enabled THEN {shared_state.dma_channel} ELSE {})
      \cup (IF multi_dac_audio_enabled
            THEN {multi_dac_state.dma_channels[i] : i \in ConfiguredDacs}
            ELSE {})

C18_NeverStallsUnlessFault ==
    \A ch \in DmaIds :
      /\ (ch \in OutputChannels /\ dma[ch].intr) ~> (dma[ch].busy \/ halted = "fault")
      /\ (ch \in OutputChannels) ~> (dma[ch].busy \/ halted = "fault")

\* the clock unit and the data units of the multi-output engine
MultiUnits ==
    {multi_dac_state.clock_pio_sm} \cup {multi_dac_state.data_pio_sms[i] : i \in ConfiguredDacs}

\* the integer.fraction divider of a sample rate
DividerOf(sample_freq) ==
    LET divider == U32Times4Div(clock_get_hz, sample_freq)
    IN <<divider \div 256, divider % 256>>

\* C19: after setup_multi all channels share one frequency: the clock unit
\* and every data unit carry the same divider, which is the divider of the
\* recorded shared frequency once one is recorded; no connect, take, give
\* or handler run leaves only some of the units changed.
C19_SharedFrequency ==
    (halted = "no" /\ multi_dac_state.initialized) =>
      /\ \A u, v \in MultiUnits : sm[u].clkdiv = sm[v].clkdiv
      /\ multi_dac_state.freq # 0 =>
           \A u \in MultiUnits : sm[u].clkdiv = DividerOf(multi_dac_state.freq)

\* no channel has been connected since setup
NoneConnected == \A i \in Dacs : multi_dac_state.consumers[i] = NULL

IsFloorOf4Times(d, S, R) ==
    LET a == d \div 4
        b == d % 4
        rem == S - a * R
    IN /\ 0 <= rem
       /\ rem < R
       /\ b * R <= 4 * rem
       /\ 4 * rem < (b + 1) * R

\* S < 2^30 and floor(4 * S / R) < 2^24 (that is, S < 2^22 * R)
DividerInRange(S, R) ==
    /\ R # 0
    /\ S < 1073741824
    /\ S \div 4194304 < R

\* C21: for a system clock below 2^30 and a sample rate whose divider is
\* below 2^24, every clock-divide register written receives the integer
\* part d >> 8 (within 16 bits) and the fractional part d & 0xff of
\* d = floor(4 * S / R), R being the rate the write was computed for.
C21_DividerExact ==
    [][\A s \in SmIds :
         (sm'[s].clkdiv # sm[s].clkdiv /\ DividerInRange(clk_sys, applied'))
         => /\ sm'[s].clkdiv[1] \in 0..65535
            /\ sm'[s].clkdiv[2] \in 0..255
            /\ IsFloorOf4Times(sm'[s].clkdiv[1] * 256 + sm'[s].clkdiv[2],
                               clk_sys, applied')]_vars

\* C21 witness: at the largest clock below 2^30, where the product 4 * S
\* needs all 32 bits, the divider of 44100 Hz (97391 = 380 * 256 + 111) is
\* in the register
C21_LargestClockApplied ==
    /\ clk_sys = 1073741823
    /\ applied = 44100
    /\ sm[shared_state.pio_sm].clkdiv = <<380, 111>>

\* C22: applying the frequency controller again with the sample rate it
\* applied last writes no register: a connect call (connect, connect_extra,
\* connect_s8, connect_multi) that writes a clock divider is applying a rate
\* other than the last one applied.
C22_RepeatedApplyWritesOnce ==
    [][(/\ pc.step = "idle"
        /\ pc'.step \in {"connect_complete", "mconnect_complete"}
        /\ pc'.w)
       => applied # pool[pc'.p].freq]_vars

\* a step of a completion handler: only the handlers acknowledge a raised
\* completion flag
HandlerStep == \E ch \in DmaIds : dma[ch].inte /\ dma[ch].intr /\ ~dma'[ch].intr

\* C23: the frequency controller never runs in completion-interrupt
\* context: no handler step changes a recorded frequency or a clock divider
\* (in executions free of undefined behaviour).
C23_NoFrequencyWriteInIrq ==
    [][(HandlerStep /\ ~ubSeen)
       => /\ applied' = applied
          /\ shared_state'.freq = shared_state.freq
          /\ multi_dac_state'.freq = multi_dac_state.freq
          /\ \A s \in SmIds : sm'[s].clkdiv = sm[s].clkdiv]_vars

\* C24: a system clock of 2^30 Hz or more, or a divider of 2^24 or more,
\* halts execution before any clock-divide register is written: whenever a
\* divider has been written, clock and rate were in range and the integer
\* part in every register fits in 16 bits.
C24_OutOfRangeIsFatal ==
    applied # 0
    => /\ DividerInRange(clk_sys, applied)
       /\ \A s \in SmIds : sm[s].clkdiv[1] < 65536

\* C25: when a single-output connect entry point returns true, the
\* frequency recorded in shared state is the connected producer's sample
\* rate and is the rate of the divider last written.
C25_ConnectPrimesFrequency ==
    [][(pc.step = "connect_complete" /\ pc'.step = "idle" /\ halted' = "no")
       => /\ shared_state'.freq = pool'[pc.p].freq
          /\ applied' = shared_state'.freq]_vars

\* a consumer take hook or a producer give hook of the single-output
\* connection runs in this step: the take of set_enabled or of the handler
\* on a connected consumer pool, or a give of the application
TakeHookStep ==
    /\ audio_i2s_consumer # NULL
    /\ pool[audio_i2s_consumer].conn # NullConn
    /\ \/ pc.step = "se_take" /\ pc'.step = "se_arm"
       \/ HandlerStep

GiveHookStep ==
    /\ pc.step = "idle"
    /\ \E b \in appHeld : b \notin appHeld' \/ pc'.step = "give_blocked"

\* C26: for every connection the connect routines install (pass-through, ct,
\* pg, s8), after a take or give hook has run the last-applied frequency
\* is the producer's sample rate.
C26_DynamicShiftEveryConnection ==
    [][(/\ TakeHookStep \/ GiveHookStep
        /\ pool[SingleProducer].conn \in {"thru", "ct", "pg", "s8"}
        /\ halted' = "no")
       => shared_state'.freq = pool[SingleProducer].freq]_vars

\* the connect call completes and returns true
ConnectReturns == pc.step = "connect_complete" /\ pc'.step = "idle" /\ halted' = "no"

\* C27: connect_extra installs its connection argument unchanged when it
\* is not null; with a null argument it installs the pass-through
\* connection for buffer_count 0, the copy-on-producer-give connection for
\* buffer_count > 0 with buffer_on_give, the copy-on-consumer-take connection
\* for buffer_count > 0 without.
C27_ConnectionByPolicy ==
    [][(ConnectReturns /\ pc.e # "connect_s8")
       => LET expected == IF pc.a # NullConn THEN pc.a
                          ELSE IF pc.i = 0 THEN "thru"
                          ELSE IF pc.g THEN "pg" ELSE "ct"
          IN /\ pool'[pc.p].conn = expected
             /\ pool'[audio_i2s_consumer].conn = expected
             /\ conn'[expected].producer_pool = pc.p
             /\ conn'[expected].consumer_pool = audio_i2s_consumer]_vars

\* C27 witness: connect_extra with a null connection, buffer_on_give and two
\* buffers has returned and the copy-on-producer-give connection joins the
\* producer and the consumer pool
C27_GiveSideInstalled ==
    /\ pc.step = "idle"
    /\ audio_i2s_consumer # NULL
    /\ pool[SingleProducer].conn = "pg"
    /\ conn["pg"].consumer_pool = audio_i2s_consumer

\* C28: audio_i2s_connect(producer) and audio_i2s_connect_thru(producer,
\* NULL) establish a pass-through connection with no intermediate consumer
\* buffers.
C28_ConnectIsPassThrough ==
    [][(ConnectReturns /\ pc.e \in {"connect", "connect_thru"} /\ pc.a = NullConn)
       => /\ pool'[pc.p].conn = "thru"
          /\ pool'[audio_i2s_consumer].free = <<>>
          /\ pool'[audio_i2s_consumer].full = <<>>]_vars

\* C29: a connect call returns only for a producer whose sample format is
\* the one of the entry point: 8-bit for connect_s8, 16-bit for the others.
C29_FormatMismatchIsFatal ==
    [][ConnectReturns
       => pool[pc.p].format = (IF pc.e = "connect_s8" THEN "S8" ELSE "S16")]_vars

\* C30: in a mono-output build no connect call returns true for a
\* 2-channel producer.
C30_StereoIntoMonoIsFatal ==
    [][(ConnectReturns /\ mono.output) => pool[pc.p].channel_count # 2]_vars

\* C31: with stereo output and a null connection argument, the connection
\* connect_extra installs converts as the producer needs: mono-to-stereo
\* duplication for a 1-channel 16-bit producer, a stereo copy (or the
\* pass-through of stereo buffers) for a 2-channel producer.
C31_ConversionMatchesProducer ==
    [][(/\ ConnectReturns
        /\ pc.e # "connect_s8"
        /\ pc.a = NullConn
        /\ ~mono.output
        /\ pool[pc.p].format = "S16")
       => LET conversion == connection_conversion(pool'[pc.p].conn)
          IN IF pool[pc.p].channel_count = 1
             THEN conversion = "mono_to_stereo"
             ELSE conversion \in {"stereo_to_stereo", "none"}]_vars

\* a run of the multi-output completion handler
MultiHandlerStep ==
    /\ halted = "no"
    /\ irqEnabled
    /\ "multi" \in irqHandlers
    /\ pc' = pc
    /\ \E i \in ConfiguredDacs :
         LET ch == multi_dac_state.dma_channels[i]
         IN dma[ch].intr /\ ~dma'[ch].intr

\* channel i's completion flag is raised when the handler runs
Flagged(i) == dma_irqn_get_channel_status(M, multi_dac_state.dma_channels[i])

\* C32: the multi-output completion handler touches only channels whose
\* completion flag is set: with every configured channel connected, the
\* playing slot, the DMA channel and the consumer pool of every channel whose
\* flag is not set are unchanged by a run of the handler.
C32_OnlyFlaggedChannels ==
    [][(/\ MultiHandlerStep
        /\ SetupInRange
        /\ \A i \in ConfiguredDacs : Connected(multi_dac_state.consumers[i]))
       => \A i \in ConfiguredDacs :
            ~Flagged(i) =>
              /\ multi_dac_state'.playing_buffers[i] = multi_dac_state.playing_buffers[i]
              /\ dma'[multi_dac_state.dma_channels[i]] = dma[multi_dac_state.dma_channels[i]]
              /\ pool'[multi_dac_state.consumers[i]] = pool[multi_dac_state.consumers[i]]]_vars

\* the position of a call into the multi-output engine, and into the
\* single-output engine
MultiSteps == {"msetup_return", "mconnect_complete", "mconnect_return", "me_entry",
               "me_take", "me_arm", "me_clock", "me_data", "me_stop", "me_free"}
SingleSteps == {"connect_complete", "se_entry", "se_take", "se_arm", "se_give", "se_sm"}

\* a step of a multi-output operation: of setup_multi, connect_multi or
\* set_enabled_multi in normal context, or a run of the multi handler
MultiOperationStep ==
    \/ pc' # pc /\ (pc.step \in MultiSteps \/ pc'.step \in MultiSteps)
    \/ MultiHandlerStep

\* a step of a single-output operation: of connect or set_enabled in normal
\* context, or a run of the single-output handler
SingleOperationStep ==
    \/ pc' # pc /\ (pc.step \in SingleSteps \/ pc'.step \in SingleSteps)
    \/ /\ halted = "no" /\ irqEnabled /\ "single" \in irqHandlers /\ pc' = pc
       /\ dma[shared_state.dma_channel].intr /\ ~dma'[shared_state.dma_channel].intr

\* the producer and consumer a pool's connection is bound to
BindingOf(p) ==
    IF p = NULL \/ pool[p].conn = NullConn THEN <<NullConn, NULL, NULL>>
    ELSE <<pool[p].conn, conn[pool[p].conn].producer_pool, conn[pool[p].conn].consumer_pool>>

\* single-output state: the playing slot and recorded frequency, the
\* consumer pool, the enabled flag, the connection bindings, and whether
\* the completion interrupt of its channel is delivered
SingleOutputState ==
    <<shared_state, audio_i2s_consumer, audio_enabled, BindingOf(audio_i2s_consumer),
      irqEnabled /\ dma[shared_state.dma_channel].inte>>

MultiOutputState ==
    <<multi_dac_state, multi_dac_audio_enabled,
      [i \in Dacs |-> BindingOf(multi_dac_state.consumers[i])],
      [i \in Dacs |-> irqEnabled /\ dma[multi_dac_state.dma_channels[i]].inte]>>

\* C33: with both engines set up on disjoint state machines and DMA
\* channels, no multi-output operation changes single-output state and no
\* single-output operation changes multi-output state.
C33_EnginesSeparate ==
    [][(SingleSetUp /\ multi_dac_state.initialized /\ halted' = "no") =>
         /\ MultiOperationStep => UNCHANGED SingleOutputState
         /\ SingleOperationStep => UNCHANGED MultiOutputState]_vars

\* both engines stream, and set_enabled_multi(false) is at its first step
C33_BothStreaming ==
    /\ halted = "no"
    /\ audio_enabled
    /\ multi_dac_audio_enabled
    /\ pc.step = "me_entry"
    /\ ~pc.en

\* the units and DMA channels setup_multi recorded are pairwise distinct
UnitsAndChannelsDistinct ==
    \A i \in ConfiguredDacs :
      /\ multi_dac_state.data_pio_sms[i] # multi_dac_state.clock_pio_sm
      /\ \A j \in ConfiguredDacs :
           i # j => /\ multi_dac_state.data_pio_sms[i] # multi_dac_state.data_pio_sms[j]
                    /\ multi_dac_state.dma_channels[i] # multi_dac_state.dma_channels[j]

\* C34: setup_multi returns a format only for a configuration that reuses no
\* hardware resource: the clock unit is no data unit, the channels' data
\* units and DMA channels are pairwise distinct, and no pin carries more
\* than one signal (no two channels on one data pin, no data pin on a clock
\* pin); in every other case it has halted.
C34_ReuseIsFatal ==
    (pc.step = "msetup_return" /\ pc.ret = "format") =>
      /\ UnitsAndChannelsDistinct
      /\ \A pin \in Pins : gpio[pin] <= 1

\* the state machine and the DMA channel of the single-output engine
SingleUnitRunning == sm[shared_state.pio_sm].enabled
SingleChannelArmed == dma[shared_state.dma_channel].busy

\* C35: set_enabled(true) from Disabled enables the completion interrupt,
\* then primes the first transfer, then starts the timing unit: while it
\* primes, the interrupt is enabled and the unit is stopped, and when it is
\* about to start the unit the channel is armed.  set_enabled(false) from
\* Enabled disables the interrupt, then releases the playing buffer, then
\* stops the unit: while it releases, the interrupt is disabled and the unit
\* still runs, and when it is about to stop the unit the playing slot is
\* empty.  The last step switches the unit and the enabled flag.
C35_SingleOrder ==
    /\ []((pc.step \in {"se_take", "se_arm"}) => (irqEnabled /\ ~SingleUnitRunning))
    /\ []((pc.step = "se_sm" /\ pc.en /\ halted = "no") =>
            (irqEnabled /\ ~SingleUnitRunning /\ SingleChannelArmed))
    /\ []((pc.step = "se_give") => (~irqEnabled /\ SingleUnitRunning))
    /\ []((pc.step = "se_sm" /\ ~pc.en /\ halted = "no") =>
            (~irqEnabled /\ SingleUnitRunning /\ shared_state.playing_buffer = NULL))
    /\ [][(pc.step = "se_sm" /\ pc'.step = "idle") =>
            (SingleUnitRunning' = pc.en /\ audio_enabled' = pc.en)]_vars

\* set_enabled(false) has disabled the interrupt and released the buffer
\* that was playing, and is about to stop the unit
C35_Stopping ==
    /\ halted = "no"
    /\ pc.step = "se_sm"
    /\ ~pc.en
    /\ audio_enabled
    /\ SingleUnitRunning
    /\ ~irqEnabled
    /\ arms > 0
    /\ \E p \in PoolIds : pool[p].type = "consumer" /\ Len(pool[p].free) = DefaultBufferCount

\* a run of the single-output completion handler
SingleHandlerStep ==
    /\ halted = "no"
    /\ irqEnabled
    /\ "single" \in irqHandlers
    /\ pc' = pc
    /\ dma[shared_state.dma_channel].intr
    /\ ~dma'[shared_state.dma_channel].intr

\* buffer b lies in the free list of some pool after the step
ReleasedAfter(b) ==
    \E p \in PoolIds : \E k \in 1..Len(pool'[p].free) : pool'[p].free[k] = b

FlaggedDacs == {i \in ConfiguredDacs : Flagged(i)}

\* C36: each run of the completion handler on connected outputs (and with no
\* undefined behaviour executed before), for every channel whose flag is
\* set, acknowledges the flag, releases the buffer that was playing (if any)
\* and re-runs arm-or-silence, and returns: afterwards the flag is clear,
\* the buffer that played is in a free list unless it plays again, the
\* channel is armed, and the run has armed exactly one transfer per flagged
\* channel.
C36_HandlerRun ==
    [][/\ (SingleHandlerStep /\ Connected(audio_i2s_consumer) /\ ~ubSeen) =>
            /\ halted' = "no"
            /\ dma'[shared_state.dma_channel].busy
            /\ arms' = Min(arms + 1, ArmCap)
            /\ LET played == shared_state.playing_buffer
               IN (played # NULL /\ shared_state'.playing_buffer # played)
                    => ReleasedAfter(played)
       /\ (/\ MultiHandlerStep
           /\ \A i \in ConfiguredDacs : Connected(multi_dac_state.consumers[i])
           /\ ~ubSeen) =>
            /\ halted' = "no"
            /\ arms' = Min(arms + Cardinality(FlaggedDacs), ArmCap)
            /\ \A i \in FlaggedDacs :
                 /\ ~dma'[multi_dac_state.dma_channels[i]].intr
                 /\ dma'[multi_dac_state.dma_channels[i]].busy
                 /\ LET played == multi_dac_state.playing_buffers[i]
                    IN (played # NULL /\ multi_dac_state'.playing_buffers[i] # played)
                         => ReleasedAfter(played)]_vars

\* the transfer armed on DMA channel record d reads buffer b, count samples
WholeBufferArmed(d, b, count) ==
    /\ d.busy
    /\ d.incr
    /\ d.src = b
    /\ d.count = count

C38_SlotEmptyAtArm ==
    (/\ Running
     /\ pc.step = "se_take"
     /\ ~ubSeen
     /\ Connected(audio_i2s_consumer)) => shared_state.playing_buffer = NULL

\* a step that gives the playing buffer back: the handler's release or the
\* disable branch of set_enabled
SingleReleaseStep ==
    /\ shared_state.playing_buffer # NULL
    /\ \/ SingleHandlerStep
       \/ pc.step = "se_give" /\ pc'.step = "se_sm"

\* C39: a playing buffer is given back to the consumer pool it was taken
\* from: at every release of a consumer pool's own buffer (a copying
\* connection) the consumer pool pointer is the pool that owns the buffer,
\* and the buffer does not land in another pool's free list.
C39_ReleasedToOwnPool ==
    [][(/\ SingleReleaseStep
        /\ ~ubSeen
        /\ pool[buf[shared_state.playing_buffer].home].type = "consumer") =>
         LET played == shared_state.playing_buffer
         IN /\ audio_i2s_consumer = buf[played].home
            /\ \A p \in PoolIds :
                 (\E k \in 1..Len(pool'[p].free) : pool'[p].free[k] = played)
                   => p = buf[played].home]_vars

\* C40: for every 16-bit producer with 1 or 2 channels that connect_extra
\* accepted, and every connection selected by policy, each buffer that
\* arm-or-silence took is non-empty and has the output's sample format and
\* channel count, so arm-or-silence does not halt on an assertion.
C40_ArmContract ==
    (/\ pc.step = "se_arm"
     /\ pc.ab # NULL
     /\ ~ubSeen
     /\ pool[SingleProducer].format = "S16"
     /\ pool[SingleProducer].conn \in {"thru", "ct", "pg"}) =>
      LET home == pool[buf[pc.ab].home]
      IN /\ buf[pc.ab].sample_count # 0
         /\ home.format = "S16"
         /\ home.channel_count = (IF mono.output THEN 1 ELSE 2)

====
